---------------------------- MODULE Spec2Model ----------------------------
(***************************************************************************)
(* A model of the Fitness_Tracker analysis pipeline: the exercise          *)
(* analyzers (exercise_analyzer.py), the angle geometry and landmark       *)
(* accessors (pose_utils.py), the batch video pipeline                     *)
(* (video_processor.py) and the streaming capture loop                     *)
(* (camera_analyzer.py).                                                   *)
(*                                                                         *)
(* Conventions.  Python's None is the record None.  A landmark array is a  *)
(* sequence of rows <<x, y, z, visibility>>; Python index i is TLA+ index  *)
(* i + 1.  Coordinates are integers in units of 1/40 of the image (angles  *)
(* do not depend on the unit).  A dict is a function on its keys (built    *)
(* entry by entry with :> and @@), a list a sequence.  An angle in degrees  *)
(* is held in half-degree steps: 2k for exactly k degrees and 2k + 1 for   *)
(* a value strictly between k and k + 1,                                   *)
(* so that every comparison against a whole-degree threshold is exact.     *)
(* NaN is the number NaN, outside that range, and every ordering           *)
(* comparison with it is false, as in IEEE arithmetic.                     *)
(***************************************************************************)
EXTENDS Integers, Sequences, FiniteSets, TLC

VARIABLES
    analyzer_class,    \* class of the analyzer object: "none" before creation
    rep_count,         \* ExerciseAnalyzer.rep_count
    current_state,     \* ExerciseAnalyzer.current_state
    state_history,     \* ExerciseAnalyzer.state_history
    angle_history,     \* ExerciseAnalyzer.angle_history
    feedback_history,  \* ExerciseAnalyzer.feedback_history
    ret,               \* the last call made on the analyzer API and what it returned or raised
    fed,               \* log: the frames whose landmarks were passed to analyze_frame
                       \* since the analyzer was created or last reset
    was_reset,         \* log: reset() has been called on this analyzer after it had
                       \* analyzed a frame
    processor_analyzer,  \* VideoProcessor.analyzer: None, or [py |-> "analyzer"]
                         \* for the analyzer object above
    processed_frames,  \* VideoProcessor.processed_frames
    analysis_results,  \* VideoProcessor.analysis_results
    video_pc,          \* where process_video stands: "idle" outside a call,
                       \* "loop" at the top of its while loop
    frame_count,       \* process_video's local frame_count
    cap,               \* process_video's capture: "none", "open", "released"
    video_writer,      \* process_video's writer: "none", "open", "released"
    written,           \* the frames written to the output file of the call
    video_ret,         \* what the last process_video call returned or raised
    camera_analyzer,   \* CameraAnalyzer.analyzer: None, or [py |-> "analyzer"]
                       \* for the analyzer object above
    camera,            \* CameraAnalyzer.cap: None, [handle |-> 0] for a capture
                       \* that could not be opened, [handle |-> k] for the
                       \* capture that holds devices[k]
    devices,           \* for each capture that was opened, in the order of the
                       \* start_camera calls, the release() calls made on it:
                       \* it holds its device while there is none
    is_running,        \* CameraAnalyzer.is_running
    current_frame,     \* CameraAnalyzer.current_frame: None or [frame |-> f]
    current_analysis,  \* CameraAnalyzer.current_analysis
    current_pose_results,  \* CameraAnalyzer.current_pose_results; [py |-> "unset"]
                           \* while the attribute does not exist
    frame_lock,        \* CameraAnalyzer.frame_lock: <<>> when free, else <<t>>
                       \* for the thread t that holds it
    thread_pc,         \* where each capture thread stands in _capture_frames
    thread_local,      \* each capture thread's ret, frame, analysis and
                       \* pose_results, and the number of the frame among those
                       \* delivered
    started,           \* capture threads started so far
    frames_read,       \* frames the camera has delivered so far
    main_pc,           \* the caller's thread: "idle", or "get" inside
                       \* get_current_frame_and_analysis holding the lock
    camera_ret,        \* the last call on the CameraAnalyzer and what it
                       \* returned or raised
    slot_log,          \* log: for each of current_frame, current_analysis and
                       \* current_pose_results the number of the frame whose
                       \* turn of the capture loop assigned it, 0 before any
    observed           \* log: slot_log as it was when
                       \* get_current_frame_and_analysis last returned a frame,
                       \* and the rep_count of the analysis it returned

analyzer_vars == <<analyzer_class, rep_count, current_state, state_history,
                   angle_history, feedback_history>>

batch_vars == <<processor_analyzer, processed_frames, analysis_results,
                video_pc, frame_count, cap, video_writer, written, video_ret>>

\* everything outside the analyzer object and the log of the calls on it
stream_vars == <<camera_analyzer, camera, devices, is_running, current_frame,
                 current_analysis, current_pose_results, frame_lock, thread_pc,
                 thread_local, started, frames_read, main_pc, camera_ret,
                 slot_log, observed>>

pipeline_vars == <<batch_vars, stream_vars>>

vars == <<analyzer_class, rep_count, current_state, state_history,
          angle_history, feedback_history, ret, fed, was_reset,
          processor_analyzer, processed_frames, analysis_results,
          video_pc, frame_count, cap, video_writer, written, video_ret,
          camera_analyzer, camera, is_running, current_frame,
          current_analysis, current_pose_results, frame_lock, thread_pc,
          thread_local, started, frames_read, main_pc, camera_ret,
          devices, slot_log, observed>>

---------------------------------------------------------------------------
(* Bounds of the model.                                                    *)

\* analyze_frame calls with landmarks present between two resets
MaxFrames == 3

\* the same, where every exercise_type and get_form_feedback call is tried
MaxApiFrames == 2

\* frames a video file yields before its first failed read
MaxVideoFrames == 3

\* start_camera calls that open the camera, each starting a capture thread
MaxStarts == 2

\* frames the camera delivers
MaxStreamFrames == 4

\* release() calls on one capture
MaxReleases == 2

\* Points given to calculate_angle have coordinates 0 .. MaxCoordinate
MaxCoordinate == 2

\* The indices get_landmark_coordinates is called with: -MaxIndex..MaxIndex
MaxIndex == 34

\* analyze_frame calls with landmarks present between two resets, where
\* the frames are few and the histories long
MaxCountFrames == 5

---------------------------------------------------------------------------
(* Python values.                                                          *)

None == [py |-> "None"]

\* float('nan') as produced by 0.0 / 0.0 in calculate_angle
NaN == -1

\* k whole degrees in half-degree steps
Deg(k) == 2 * k

\* IEEE ordering: false whenever an operand is NaN
FloatLt(a, b) == a /= NaN /\ b /= NaN /\ a < b

FloatGt(a, b) == a /= NaN /\ b /= NaN /\ a > b

\* dict.get(key, default)
DictGet(d, key, default) == IF key \in DOMAIN d THEN d[key] ELSE default

---------------------------------------------------------------------------
(* pose_utils.py                                                           *)

RIGHT_SHOULDER == 12
RIGHT_ELBOW == 14
RIGHT_WRIST == 16
RIGHT_HIP == 24
RIGHT_KNEE == 26
RIGHT_ANKLE == 28
RIGHT_FOOT_INDEX == 32

\* get_landmark_coordinates: [x, y, z] of row landmark_idx, or None.  A
\* negative index that Python accepts counts from the end of the array.
get_landmark_coordinates(landmarks, landmark_idx) ==
    IF landmarks /= None /\ landmark_idx < Len(landmarks)
    THEN LET landmark == landmarks[(IF landmark_idx < 0
                                    THEN landmark_idx + Len(landmarks)
                                    ELSE landmark_idx) + 1]
         IN  IF Len(landmark) >= 3
             THEN <<landmark[1], landmark[2], landmark[3]>>
             ELSE None
    ELSE None

\* is_landmark_visible: visibility is held in tenths, the threshold 0.5 is 5
is_landmark_visible(landmarks, landmark_idx, threshold) ==
    IF landmarks /= None /\ landmark_idx < Len(landmarks)
    THEN landmarks[(IF landmark_idx < 0 THEN landmark_idx + Len(landmarks)
                    ELSE landmark_idx) + 1][4] > threshold
    ELSE FALSE

\* The scale of CosSqTable.
CosScale == 100000

\* cos(k degrees)^2 * CosScale rounded, for k = 0 .. 90 (entry k + 1): the
\* table by which the inverse cosine is taken in integer arithmetic.
CosSqTable ==
    <<100000, 99970, 99878, 99726, 99513, 99240, 98907, 98515, 98063, 97553,
      96985, 96359, 95677, 94940, 94147, 93301, 92402, 91452, 90451, 89401,
      88302, 87157, 85967, 84733, 83457, 82139, 80783, 79389, 77960, 76496,
      75000, 73474, 71919, 70337, 68730, 67101, 65451, 63782, 62096, 60396,
      58682, 56959, 55226, 53488, 51745, 50000, 48255, 46512, 44774, 43041,
      41318, 39604, 37904, 36218, 34549, 32899, 31270, 29663, 28081, 26526,
      25000, 23504, 22040, 20611, 19217, 17861, 16543, 15267, 14033, 12843,
      11698, 10599, 9549, 8548, 7598, 6699, 5853, 5060, 4323, 3641,
      3015, 2447, 1937, 1485, 1093, 760, 487, 274, 122, 30, 0>>

\* np.degrees(np.arccos(np.clip(dot / sqrt(norm_sq), -1.0, 1.0))) for
\* norm_sq > 0, in half-degree steps.  The cosine is dot / sqrt(norm_sq); its
\* square is compared with the table, its sign decides the side of 90.
ArcCosDegrees(dot, norm_sq) ==
    LET clipped == IF dot * dot > norm_sq THEN norm_sq ELSE dot * dot
        c2 == clipped * CosScale
        k  == CHOOSE j \in 0..90 :
                  /\ c2 <= CosSqTable[j + 1] * norm_sq
                  /\ (j = 90 \/ c2 > CosSqTable[j + 2] * norm_sq)
        h  == 2 * k + (IF c2 = CosSqTable[k + 1] * norm_sq THEN 0 ELSE 1)
    IN  IF dot >= 0 THEN h ELSE Deg(180) - h

\* Mutant of calculate_angle: the angle is measured at a, not at b
calculate_angle_at_a(a, b, c) ==
    LET ab == <<b[1] - a[1], b[2] - a[2]>>
        ac == <<c[1] - a[1], c[2] - a[2]>>
        dot == ab[1] * ac[1] + ab[2] * ac[2]
        norm_sq == (ab[1] * ab[1] + ab[2] * ab[2]) * (ac[1] * ac[1] + ac[2] * ac[2])
    IN  IF norm_sq = 0 THEN NaN ELSE ArcCosDegrees(dot, norm_sq)

\* Mutant of calculate_angle: the angle is taken from a to c with its
\* direction, negative when c lies clockwise of a
calculate_angle_directed(a, b, c) ==
    LET ba == <<a[1] - b[1], a[2] - b[2]>>
        bc == <<c[1] - b[1], c[2] - b[2]>>
        dot == ba[1] * bc[1] + ba[2] * bc[2]
        cross == ba[1] * bc[2] - ba[2] * bc[1]
        norm_sq == (ba[1] * ba[1] + ba[2] * ba[2]) * (bc[1] * bc[1] + bc[2] * bc[2])
    IN  IF norm_sq = 0 THEN NaN
        ELSE IF cross >= 0 THEN ArcCosDegrees(dot, norm_sq)
             ELSE 0 - ArcCosDegrees(dot, norm_sq)

\* calculate_angle(a, b, c): the angle at b between the rays b->a and b->c,
\* from the x and y coordinates only.  A ray of zero length makes the
\* quotient 0.0 / 0.0, which is NaN and stays NaN through clip, arccos and
\* degrees.
calculate_angle(a, b, c) ==
    LET ba == <<a[1] - b[1], a[2] - b[2]>>
        bc == <<c[1] - b[1], c[2] - b[2]>>
        dot == ba[1] * bc[1] + ba[2] * bc[2]
        norm_sq == (ba[1] * ba[1] + ba[2] * ba[2]) * (bc[1] * bc[1] + bc[2] * bc[2])
    IN  IF norm_sq = 0 THEN NaN ELSE ArcCosDegrees(dot, norm_sq)

---------------------------------------------------------------------------
(* The pose detector (external): what PoseDetector.get_landmarks returns   *)
(* for a frame.  Frame 0 shows no pose; the others are fixed poses.        *)

\* An array of n rows with the seven joints the analyzers read placed at
\* the given (x, y), z = 0 and visibility 1.0; every other row is zero.
MkLandmarks(n, shoulder, elbow, wrist, hip, knee, ankle, foot) ==
    [i \in 1..n |->
        CASE i = RIGHT_SHOULDER + 1   -> <<shoulder[1], shoulder[2], 0, 10>>
          [] i = RIGHT_ELBOW + 1      -> <<elbow[1], elbow[2], 0, 10>>
          [] i = RIGHT_WRIST + 1      -> <<wrist[1], wrist[2], 0, 10>>
          [] i = RIGHT_HIP + 1        -> <<hip[1], hip[2], 0, 10>>
          [] i = RIGHT_KNEE + 1       -> <<knee[1], knee[2], 0, 10>>
          [] i = RIGHT_ANKLE + 1      -> <<ankle[1], ankle[2], 0, 10>>
          [] i = RIGHT_FOOT_INDEX + 1 -> <<foot[1], foot[2], 0, 10>>
          [] OTHER                    -> <<0, 0, 0, 0>>]

\* Angles in degrees (elbow, shoulder, hip = body_alignment, knee, ankle):
\*  1: 180, 90, 180, 180, 90        straight, nothing to report
\*  2: 70.02, 90, 180, 70.02, 70.02 bent elbow and knee, nothing to report
\*  3: 90, 153.4, 26.6, 110.2, 6.3  elbow exactly 90, knee just above 110
\*  4: 110.2, 116.6, 175.2, 90, 4.8 elbow above 100, knee exactly 90
\*  5: 70.02, 90, -, -, -           25 rows: knee, ankle and foot missing
\*  6: NaN, NaN, 180, NaN, NaN      elbow on shoulder, ankle on knee
PoseTable ==
    << MkLandmarks(33, <<2, 0>>, <<1, 0>>, <<0, 0>>, <<2, 1>>, <<2, 2>>, <<2, 3>>, <<3, 3>>),
       MkLandmarks(33, <<1, 4>>, <<0, 4>>, <<4, 15>>, <<1, 5>>, <<1, 6>>, <<12, 2>>, <<12, 3>>),
       MkLandmarks(33, <<8, 19>>, <<7, 19>>, <<7, 20>>, <<10, 20>>, <<9, 20>>, <<2, 39>>, <<3, 37>>),
       MkLandmarks(33, <<8, 0>>, <<7, 0>>, <<0, 19>>, <<9, 2>>, <<11, 7>>, <<16, 5>>, <<14, 6>>),
       MkLandmarks(25, <<1, 4>>, <<0, 4>>, <<4, 15>>, <<1, 5>>, <<1, 6>>, <<1, 7>>, <<2, 7>>),
       MkLandmarks(33, <<1, 0>>, <<1, 0>>, <<0, 0>>, <<1, 1>>, <<1, 2>>, <<1, 2>>, <<2, 2>>) >>

Frames == 0..Len(PoseTable)

\* A pose of which the detector gives 13 rows only: the right shoulder is
\* the last row, no angle can be computed
ShortPose == MkLandmarks(13, <<1, 4>>, <<0, 4>>, <<4, 15>>, <<1, 5>>, <<1, 6>>, <<1, 7>>, <<2, 7>>)

\* The frame that shows the short pose
ShortFrame == Len(PoseTable) + 1

\* PoseDetector.get_landmarks(detect_pose(frame))
get_landmarks(frame) ==
    IF frame = 0 THEN None
    ELSE IF frame = ShortFrame THEN ShortPose
    ELSE PoseTable[frame]

---------------------------------------------------------------------------
(* exercise_analyzer.py                                                    *)

UP == "up"
DOWN == "down"
TRANSITION == "transition"

FormFeedback(is_correct, message, severity) ==
    [is_correct |-> is_correct, message |-> message, severity |-> severity]

GoDeeperElbows == "Go deeper - elbows should bend past 90 degrees"
ElbowsFlare == "Keep elbows closer to body - don't flare them out"
HipSagging == "Keep body straight - avoid hip sagging"
GoDeeperThighs == "Go deeper - thighs should be parallel to ground"
ChestUp == "Keep chest up - maintain proud posture"
HeelsDown == "Keep heels on the ground"

\* PushUpAnalyzer.__init__ / SquatAnalyzer.__init__
elbow_angle_threshold == 90
knee_angle_threshold == 110

\* PushUpAnalyzer._calculate_angles
PushUp_calculate_angles(landmarks) ==
    LET right_shoulder == get_landmark_coordinates(landmarks, RIGHT_SHOULDER)
        right_elbow == get_landmark_coordinates(landmarks, RIGHT_ELBOW)
        right_wrist == get_landmark_coordinates(landmarks, RIGHT_WRIST)
        right_hip == get_landmark_coordinates(landmarks, RIGHT_HIP)
        right_knee == get_landmark_coordinates(landmarks, RIGHT_KNEE)
    IN  (IF right_shoulder /= None /\ right_elbow /= None /\ right_wrist /= None
         THEN "elbow" :> calculate_angle(right_shoulder, right_elbow, right_wrist)
         ELSE <<>>)
        @@
        (IF right_elbow /= None /\ right_shoulder /= None /\ right_hip /= None
         THEN "shoulder" :> calculate_angle(right_elbow, right_shoulder, right_hip)
         ELSE <<>>)
        @@
        (IF right_shoulder /= None /\ right_hip /= None /\ right_knee /= None
         THEN "body_alignment" :> calculate_angle(right_shoulder, right_hip, right_knee)
         ELSE <<>>)

\* Mutant of _determine_state: an absent elbow angle counts as 0
PushUp_determine_state_absent_down(angles) ==
    LET elbow_angle == DictGet(angles, "elbow", 0)
    IN  IF FloatLt(elbow_angle, Deg(elbow_angle_threshold)) THEN DOWN ELSE UP

\* Mutant of _determine_state: an elbow angle within ten degrees of the
\* threshold is classified TRANSITION
PushUp_determine_state_with_transition(angles) ==
    LET elbow_angle == DictGet(angles, "elbow", Deg(180))
    IN  IF FloatLt(elbow_angle, Deg(elbow_angle_threshold - 10)) THEN DOWN
        ELSE IF FloatLt(elbow_angle, Deg(elbow_angle_threshold + 10)) THEN TRANSITION
        ELSE UP

\* Mutant of _determine_state: the threshold itself counts as DOWN
PushUp_determine_state_inclusive(angles) ==
    LET elbow_angle == DictGet(angles, "elbow", Deg(180))
    IN  IF elbow_angle /= NaN /\ elbow_angle <= Deg(elbow_angle_threshold) THEN DOWN ELSE UP

\* PushUpAnalyzer._determine_state
PushUp_determine_state(angles) ==
    LET elbow_angle == DictGet(angles, "elbow", Deg(180))
    IN  IF FloatLt(elbow_angle, Deg(elbow_angle_threshold)) THEN DOWN ELSE UP

\* Mutant of _is_rep_complete: one recorded state is enough
PushUp_is_rep_complete_short(history, new_state) ==
    IF Len(history) < 1
    THEN FALSE
    ELSE history[Len(history)] = DOWN /\ new_state = UP

\* Mutant of _is_rep_complete: the previous state is not looked at
PushUp_is_rep_complete_any(history, new_state) ==
    IF Len(history) < 2
    THEN FALSE
    ELSE new_state = UP

\* PushUpAnalyzer._is_rep_complete, reading self.state_history
PushUp_is_rep_complete(history, new_state) ==
    IF Len(history) < 2
    THEN FALSE
    ELSE history[Len(history)] = DOWN /\ new_state = UP

\* Mutant of get_form_feedback: an absent body_alignment angle counts as 0
PushUp_get_form_feedback_absent_fires(landmarks, state) ==
    IF landmarks = None
    THEN <<>>
    ELSE LET angles == PushUp_calculate_angles(landmarks)
             elbow_angle == DictGet(angles, "elbow", Deg(180))
             shoulder_angle == DictGet(angles, "shoulder", Deg(90))
             body_angle == DictGet(angles, "body_alignment", 0)
             f1 == IF state = DOWN /\ FloatGt(elbow_angle, Deg(100))
                   THEN <<FormFeedback(FALSE, GoDeeperElbows, "warning")>>
                   ELSE <<>>
             f2 == IF FloatGt(shoulder_angle, Deg(90))
                   THEN <<FormFeedback(FALSE, ElbowsFlare, "warning")>>
                   ELSE <<>>
             f3 == IF FloatLt(body_angle, Deg(160))
                   THEN <<FormFeedback(FALSE, HipSagging, "error")>>
                   ELSE <<>>
         IN  f1 \o f2 \o f3

\* Mutant of get_form_feedback: the depth rule uses the squat's 120
PushUp_get_form_feedback_120(landmarks, state) ==
    IF landmarks = None
    THEN <<>>
    ELSE LET angles == PushUp_calculate_angles(landmarks)
             elbow_angle == DictGet(angles, "elbow", Deg(180))
             shoulder_angle == DictGet(angles, "shoulder", Deg(90))
             body_angle == DictGet(angles, "body_alignment", Deg(180))
             f1 == IF state = DOWN /\ FloatGt(elbow_angle, Deg(120))
                   THEN <<FormFeedback(FALSE, GoDeeperElbows, "warning")>>
                   ELSE <<>>
             f2 == IF FloatGt(shoulder_angle, Deg(90))
                   THEN <<FormFeedback(FALSE, ElbowsFlare, "warning")>>
                   ELSE <<>>
             f3 == IF FloatLt(body_angle, Deg(160))
                   THEN <<FormFeedback(FALSE, HipSagging, "error")>>
                   ELSE <<>>
         IN  f1 \o f2 \o f3

\* PushUpAnalyzer.get_form_feedback, reading self.current_state
PushUp_get_form_feedback(landmarks, state) ==
    IF landmarks = None
    THEN <<>>
    ELSE LET angles == PushUp_calculate_angles(landmarks)
             elbow_angle == DictGet(angles, "elbow", Deg(180))
             shoulder_angle == DictGet(angles, "shoulder", Deg(90))
             body_angle == DictGet(angles, "body_alignment", Deg(180))
             f1 == IF state = DOWN /\ FloatGt(elbow_angle, Deg(100))
                   THEN <<FormFeedback(FALSE, GoDeeperElbows, "warning")>>
                   ELSE <<>>
             f2 == IF FloatGt(shoulder_angle, Deg(90))
                   THEN <<FormFeedback(FALSE, ElbowsFlare, "warning")>>
                   ELSE <<>>
             f3 == IF FloatLt(body_angle, Deg(160))
                   THEN <<FormFeedback(FALSE, HipSagging, "error")>>
                   ELSE <<>>
         IN  f1 \o f2 \o f3

\* SquatAnalyzer._calculate_angles
Squat_calculate_angles(landmarks) ==
    LET right_hip == get_landmark_coordinates(landmarks, RIGHT_HIP)
        right_knee == get_landmark_coordinates(landmarks, RIGHT_KNEE)
        right_ankle == get_landmark_coordinates(landmarks, RIGHT_ANKLE)
        right_shoulder == get_landmark_coordinates(landmarks, RIGHT_SHOULDER)
        right_foot == get_landmark_coordinates(landmarks, RIGHT_FOOT_INDEX)
    IN  (IF right_hip /= None /\ right_knee /= None /\ right_ankle /= None
         THEN "knee" :> calculate_angle(right_hip, right_knee, right_ankle)
         ELSE <<>>)
        @@
        (IF right_shoulder /= None /\ right_hip /= None /\ right_knee /= None
         THEN "hip" :> calculate_angle(right_shoulder, right_hip, right_knee)
         ELSE <<>>)
        @@
        (IF right_knee /= None /\ right_ankle /= None /\ right_foot /= None
         THEN "ankle" :> calculate_angle(right_knee, right_ankle, right_foot)
         ELSE <<>>)

\* SquatAnalyzer._determine_state
Squat_determine_state(angles) ==
    LET knee_angle == DictGet(angles, "knee", Deg(180))
    IN  IF FloatLt(knee_angle, Deg(knee_angle_threshold)) THEN DOWN ELSE UP

\* Mutant of _is_rep_complete: the previous state is not looked at
Squat_is_rep_complete_any(history, new_state) ==
    IF Len(history) < 2
    THEN FALSE
    ELSE new_state = UP

\* SquatAnalyzer._is_rep_complete, reading self.state_history
Squat_is_rep_complete(history, new_state) ==
    IF Len(history) < 2
    THEN FALSE
    ELSE history[Len(history)] = DOWN /\ new_state = UP

\* SquatAnalyzer.get_form_feedback, reading self.current_state
Squat_get_form_feedback(landmarks, state) ==
    IF landmarks = None
    THEN <<>>
    ELSE LET angles == Squat_calculate_angles(landmarks)
             knee_angle == DictGet(angles, "knee", Deg(180))
             hip_angle == DictGet(angles, "hip", Deg(180))
             ankle_angle == DictGet(angles, "ankle", Deg(90))
             f1 == IF state = DOWN /\ FloatGt(knee_angle, Deg(120))
                   THEN <<FormFeedback(FALSE, GoDeeperThighs, "warning")>>
                   ELSE <<>>
             f2 == IF FloatLt(hip_angle, Deg(45))
                   THEN <<FormFeedback(FALSE, ChestUp, "warning")>>
                   ELSE <<>>
             f3 == IF FloatLt(ankle_angle, Deg(60))
                   THEN <<FormFeedback(FALSE, HeelsDown, "error")>>
                   ELSE <<>>
         IN  f1 \o f2 \o f3

---------------------------------------------------------------------------
(* The analyzer object and its per-frame operation.                        *)

\* ExerciseAnalyzer.__init__: the fields of a new analyzer
ExerciseAnalyzer_init ==
    [rep_count |-> 0, current_state |-> UP, state_history |-> <<>>,
     angle_history |-> <<>>, feedback_history |-> <<>>]

\* Mutant of reset: state_history is not cleared
ExerciseAnalyzer_reset_keeps_states ==
    [rep_count |-> 0, current_state |-> UP, state_history |-> state_history,
     angle_history |-> <<>>, feedback_history |-> <<>>]

\* ExerciseAnalyzer.reset: the fields it assigns
ExerciseAnalyzer_reset ==
    [rep_count |-> 0, current_state |-> UP, state_history |-> <<>>,
     angle_history |-> <<>>, feedback_history |-> <<>>]

\* The fields of the analyzer object
Session ==
    [rep_count |-> rep_count, current_state |-> current_state,
     state_history |-> state_history, angle_history |-> angle_history,
     feedback_history |-> feedback_history]

SetSession(s) ==
    /\ rep_count' = s.rep_count
    /\ current_state' = s.current_state
    /\ state_history' = s.state_history
    /\ angle_history' = s.angle_history
    /\ feedback_history' = s.feedback_history

\* Mutant of analyze_frame: the feedback is computed before current_state
\* is assigned
PushUp_count_and_record_stale_state(self, landmarks, angles, new_state) ==
    LET count == IF PushUp_is_rep_complete(self.state_history, new_state)
                 THEN self.rep_count + 1
                 ELSE self.rep_count
        feedback == PushUp_get_form_feedback(landmarks, self.current_state)
    IN  [self |-> [rep_count |-> count,
                   current_state |-> new_state,
                   state_history |-> Append(self.state_history, new_state),
                   angle_history |-> Append(self.angle_history, angles),
                   feedback_history |-> Append(self.feedback_history, feedback)],
         result |-> [rep_count |-> count, state |-> new_state,
                     angles |-> angles, feedback |-> feedback]]

\* Mutant of analyze_frame: an empty feedback list is not recorded
PushUp_count_and_record_skips_empty(self, landmarks, angles, new_state) ==
    LET count == IF PushUp_is_rep_complete(self.state_history, new_state)
                 THEN self.rep_count + 1
                 ELSE self.rep_count
        feedback == PushUp_get_form_feedback(landmarks, new_state)
    IN  [self |-> [rep_count |-> count,
                   current_state |-> new_state,
                   state_history |-> Append(self.state_history, new_state),
                   angle_history |-> Append(self.angle_history, angles),
                   feedback_history |-> IF feedback = <<>>
                                        THEN self.feedback_history
                                        ELSE Append(self.feedback_history, feedback)],
         result |-> [rep_count |-> count, state |-> new_state,
                     angles |-> angles, feedback |-> feedback]]

\* PushUpAnalyzer.analyze_frame from "Count reps" on, given the angles and
\* the state it has computed: the fields afterwards and the dict returned
PushUp_count_and_record(self, landmarks, angles, new_state) ==
    LET count == IF PushUp_is_rep_complete(self.state_history, new_state)
                 THEN self.rep_count + 1
                 ELSE self.rep_count
        feedback == PushUp_get_form_feedback(landmarks, new_state)
    IN  [self |-> [rep_count |-> count,
                   current_state |-> new_state,
                   state_history |-> Append(self.state_history, new_state),
                   angle_history |-> Append(self.angle_history, angles),
                   feedback_history |-> Append(self.feedback_history, feedback)],
         result |-> [rep_count |-> count, state |-> new_state,
                     angles |-> angles, feedback |-> feedback]]

\* PushUpAnalyzer.analyze_frame from "Determine state" on, given the angles
PushUp_classify_and_record(self, landmarks, angles) ==
    PushUp_count_and_record(self, landmarks, angles, PushUp_determine_state(angles))

\* Mutant of analyze_frame: a frame without landmarks is taken as UP
PushUp_analyze_frame_none_is_up(self, landmarks) ==
    IF landmarks = None
    THEN [self |-> [self EXCEPT !.current_state = UP],
          result |-> [rep_count |-> self.rep_count, state |-> UP,
                      angles |-> <<>>, feedback |-> <<>>]]
    ELSE PushUp_classify_and_record(self, landmarks, PushUp_calculate_angles(landmarks))

\* PushUpAnalyzer.analyze_frame on an analyzer with fields self: the fields
\* afterwards and the dict returned
PushUp_analyze_frame(self, landmarks) ==
    IF landmarks = None
    THEN [self |-> self,
          result |-> [rep_count |-> self.rep_count, state |-> self.current_state,
                      angles |-> <<>>, feedback |-> <<>>]]
    ELSE PushUp_classify_and_record(self, landmarks, PushUp_calculate_angles(landmarks))

\* Mutant of analyze_frame: the feedback is computed before current_state
\* is assigned
Squat_count_and_record_stale_state(self, landmarks, angles, new_state) ==
    LET count == IF Squat_is_rep_complete(self.state_history, new_state)
                 THEN self.rep_count + 1
                 ELSE self.rep_count
        feedback == Squat_get_form_feedback(landmarks, self.current_state)
    IN  [self |-> [rep_count |-> count,
                   current_state |-> new_state,
                   state_history |-> Append(self.state_history, new_state),
                   angle_history |-> Append(self.angle_history, angles),
                   feedback_history |-> Append(self.feedback_history, feedback)],
         result |-> [rep_count |-> count, state |-> new_state,
                     angles |-> angles, feedback |-> feedback]]

\* SquatAnalyzer.analyze_frame from "Count reps" on, given the angles and
\* the state it has computed: the fields afterwards and the dict returned
Squat_count_and_record(self, landmarks, angles, new_state) ==
    LET count == IF Squat_is_rep_complete(self.state_history, new_state)
                 THEN self.rep_count + 1
                 ELSE self.rep_count
        feedback == Squat_get_form_feedback(landmarks, new_state)
    IN  [self |-> [rep_count |-> count,
                   current_state |-> new_state,
                   state_history |-> Append(self.state_history, new_state),
                   angle_history |-> Append(self.angle_history, angles),
                   feedback_history |-> Append(self.feedback_history, feedback)],
         result |-> [rep_count |-> count, state |-> new_state,
                     angles |-> angles, feedback |-> feedback]]

\* SquatAnalyzer.analyze_frame from "Determine state" on, given the angles
Squat_classify_and_record(self, landmarks, angles) ==
    Squat_count_and_record(self, landmarks, angles, Squat_determine_state(angles))

\* SquatAnalyzer.analyze_frame on an analyzer with fields self: the fields
\* afterwards and the dict returned
Squat_analyze_frame(self, landmarks) ==
    IF landmarks = None
    THEN [self |-> self,
          result |-> [rep_count |-> self.rep_count, state |-> self.current_state,
                      angles |-> <<>>, feedback |-> <<>>]]
    ELSE Squat_classify_and_record(self, landmarks, Squat_calculate_angles(landmarks))

\* self.analyzer.analyze_frame(landmarks), dispatched on the analyzer's class
analyze_frame(class, self, landmarks) ==
    IF class = "PushUpAnalyzer"
    THEN PushUp_analyze_frame(self, landmarks)
    ELSE Squat_analyze_frame(self, landmarks)

---------------------------------------------------------------------------
(* create_analyzer.  A Python str is a sequence of one-character strings.  *)

\* The ASCII letters that str.lower() changes
AsciiLower ==
    ("A" :> "a") @@ ("B" :> "b") @@ ("C" :> "c") @@ ("D" :> "d") @@ ("E" :> "e") @@
    ("F" :> "f") @@ ("G" :> "g") @@ ("H" :> "h") @@ ("I" :> "i") @@ ("J" :> "j") @@
    ("K" :> "k") @@ ("L" :> "l") @@ ("M" :> "m") @@ ("N" :> "n") @@ ("O" :> "o") @@
    ("P" :> "p") @@ ("Q" :> "q") @@ ("R" :> "r") @@ ("S" :> "s") @@ ("T" :> "t") @@
    ("U" :> "u") @@ ("V" :> "v") @@ ("W" :> "w") @@ ("X" :> "x") @@ ("Y" :> "y") @@
    ("Z" :> "z")

\* str.lower() on ASCII text
str_lower(s) ==
    [i \in 1..Len(s) |-> IF s[i] \in DOMAIN AsciiLower THEN AsciiLower[s[i]] ELSE s[i]]

\* The exercise_type arguments tried
ExerciseTypes ==
    { <<"p", "u", "s", "h", "u", "p">>,
      <<"P", "U", "S", "H", "U", "P">>,
      <<"p", "u", "s", "h", "-", "u", "p", "s">>,
      <<"P", "u", "s", "h", "-", "u", "p", "s">>,
      <<"s", "q", "u", "a", "t">>,
      <<"S", "q", "u", "a", "T">>,
      <<"s", "q", "u", "a", "t", "s">>,
      <<"S", "q", "u", "a", "t", "s">>,
      <<"p", "u", "s", "h", "u", "p", "s">>,
      <<"p", "u", "s", "h", "-", "u", "p">>,
      <<"l", "u", "n", "g", "e">>,
      <<>> }

\* Mutant of create_analyzer: the comparison is case-sensitive
create_analyzer_case_sensitive(exercise_type) ==
    IF \/ exercise_type = <<"p", "u", "s", "h", "u", "p">>
       \/ exercise_type = <<"p", "u", "s", "h", "-", "u", "p", "s">>
    THEN "PushUpAnalyzer"
    ELSE IF \/ exercise_type = <<"s", "q", "u", "a", "t">>
            \/ exercise_type = <<"s", "q", "u", "a", "t", "s">>
         THEN "SquatAnalyzer"
         ELSE "ValueError"

\* The exercise_type arguments the application passes (app.py), and one
\* that is not supported
SelectedTypes ==
    { <<"P", "u", "s", "h", "-", "u", "p", "s">>,
      <<"S", "q", "u", "a", "t", "s">>,
      <<"l", "u", "n", "g", "e">> }

\* create_analyzer: the class of the analyzer it returns, or "ValueError"
create_analyzer(exercise_type) ==
    IF \/ str_lower(exercise_type) = <<"p", "u", "s", "h", "u", "p">>
       \/ str_lower(exercise_type) = <<"p", "u", "s", "h", "-", "u", "p", "s">>
    THEN "PushUpAnalyzer"
    ELSE IF \/ str_lower(exercise_type) = <<"s", "q", "u", "a", "t">>
            \/ str_lower(exercise_type) = <<"s", "q", "u", "a", "t", "s">>
         THEN "SquatAnalyzer"
         ELSE "ValueError"

---------------------------------------------------------------------------
(* video_processor.py: the batch pipeline.  A percentage is held in        *)
(* thousandths of a percent, cut off below: Percent(100) is exactly 100,   *)
(* Percent(0) exactly 0, and for fewer than 1000 frames no other ratio of  *)
(* frames gives either.                                                    *)

PercentScale == 1000

Percent(k) == k * PercentScale

\* Mutant of VideoProcessor_process_frame: frames are numbered from one
VideoProcessor_process_frame_one_based(class, self, frame, frame_number) ==
    LET r == analyze_frame(class, self, get_landmarks(frame))
    IN  [self |-> r.self,
         result |-> [frame_number |-> frame_number + 1,
                     landmarks |-> get_landmarks(frame),
                     pose_results |-> frame,
                     analysis |-> r.result]]

\* VideoProcessor._process_frame while an analyzer is set: the analyzer's
\* fields afterwards and the dict returned.  pose_results, the detector's
\* object for the frame, is held as the frame itself
VideoProcessor_process_frame(class, self, frame, frame_number) ==
    LET r == analyze_frame(class, self, get_landmarks(frame))
    IN  [self |-> r.self,
         result |-> [frame_number |-> frame_number,
                     landmarks |-> get_landmarks(frame),
                     pose_results |-> frame,
                     analysis |-> r.result]]

\* VideoProcessor._draw_analysis_on_frame: a copy of the frame
VideoProcessor_draw_analysis_on_frame(frame, result) == frame

\* Mutant of has_correct_form: an empty feedback list is not correct form
has_correct_form_needs_items(feedback_list) ==
    /\ feedback_list /= <<>>
    /\ \A i \in 1..Len(feedback_list) : feedback_list[i].is_correct

\* "not feedback_list or all(f.is_correct for f in feedback_list)"
has_correct_form(feedback_list) ==
    \/ feedback_list = <<>>
    \/ \A i \in 1..Len(feedback_list) : feedback_list[i].is_correct

\* The "Aggregate feedback" loop body of _generate_summary over the items
\* of one frame after another: feedback_summary afterwards
RECURSIVE aggregate_feedback(_, _, _)
aggregate_feedback(feedback_summary, results, items) ==
    IF items /= <<>>
    THEN LET feedback == Head(items)
         IN  IF feedback.message \in DOMAIN feedback_summary
             THEN aggregate_feedback(
                      [feedback_summary EXCEPT ![feedback.message].count = @ + 1],
                      results, Tail(items))
             ELSE aggregate_feedback(
                      feedback_summary @@
                          (feedback.message :> [count |-> 1,
                                                severity |-> feedback.severity]),
                      results, Tail(items))
    ELSE IF results /= <<>>
         THEN aggregate_feedback(feedback_summary, Tail(results),
                                 Head(results).analysis.feedback)
         ELSE feedback_summary

\* Mutant of form_accuracy: the ratio is not scaled to a percentage
form_accuracy_as_ratio(correct_form_frames, total_frames) ==
    IF total_frames > 0
    THEN (correct_form_frames * Percent(1)) \div total_frames
    ELSE Percent(0)

\* "(correct_form_frames / total_frames) * 100 if total_frames > 0 else 0"
form_accuracy(correct_form_frames, total_frames) ==
    IF total_frames > 0
    THEN (correct_form_frames * Percent(100)) \div total_frames
    ELSE Percent(0)

\* VideoProcessor._generate_summary over self.analysis_results
VideoProcessor_generate_summary(results) ==
    IF results = <<>>
    THEN [total_reps |-> 0, form_accuracy |-> Percent(0), feedback_summary |-> <<>>]
    ELSE LET correct_form_frames ==
                 Cardinality({ i \in 1..Len(results) :
                                 has_correct_form(results[i].analysis.feedback) })
         IN  [total_reps |-> results[Len(results)].analysis.rep_count,
              form_accuracy |-> form_accuracy(correct_form_frames, Len(results)),
              total_frames |-> Len(results),
              correct_form_frames |-> correct_form_frames,
              feedback_summary |-> aggregate_feedback(<<>>, results, <<>>)]

---------------------------------------------------------------------------
(* camera_analyzer.py: the streaming pipeline.                             *)

\* The capture threads, numbered in the order start_camera starts them
Threads == 1..MaxStarts

\* The thread of the caller of the CameraAnalyzer
MainThread == 0

\* The locals of a capture thread before it has read a frame
NoLocals ==
    [ret |-> FALSE, frame |-> None, analysis |-> None, pose_results |-> None,
     seq |-> 0]

\* The slot before any turn of the capture loop has assigned to it
NoLog == [frame |-> 0, analysis |-> 0, pose_results |-> 0]

\* "self.cap and self.cap.isOpened()"
isOpened(capture, opened_devices) ==
    /\ capture /= None
    /\ capture.handle >= 1
    /\ opened_devices[capture.handle] = 0

\* cap.release() on the capture of self.cap: the release() calls made on
\* each capture afterwards
release(capture, opened_devices) ==
    IF capture.handle >= 1
    THEN [opened_devices EXCEPT ![capture.handle] = @ + 1]
    ELSE opened_devices

\* The analysis that stands for "no analysis was made"
UnknownAnalysis ==
    [rep_count |-> 0, state |-> "unknown", angles |-> <<>>, feedback |-> <<>>]

\* CameraAnalyzer.process_frame(frame) on a frame that was read: the
\* analyzer's fields afterwards, the analysis and the pose results, and
\* whether analyze_frame was called
CameraAnalyzer_process_frame(running, analyzer, class, self, frame) ==
    IF ~running
    THEN [self |-> self, analysis |-> UnknownAnalysis, pose_results |-> None,
          analyzed |-> FALSE]
    ELSE IF analyzer /= None
         THEN [self |-> analyze_frame(class, self, get_landmarks(frame)).self,
               analysis |-> analyze_frame(class, self, get_landmarks(frame)).result,
               pose_results |-> [frame |-> frame],
               analyzed |-> TRUE]
         ELSE [self |-> self, analysis |-> UnknownAnalysis,
               pose_results |-> [frame |-> frame], analyzed |-> FALSE]

\* "getattr(self, 'current_pose_results', None)"
getattr_current_pose_results(attribute) ==
    IF attribute = [py |-> "unset"] THEN None ELSE attribute

---------------------------------------------------------------------------
(* The analyzer API as a caller drives it.                                 *)

Init ==
    /\ analyzer_class = "none"
    /\ rep_count = 0
    /\ current_state = UP
    /\ state_history = <<>>
    /\ angle_history = <<>>
    /\ feedback_history = <<>>
    /\ ret = [op |-> "none", arg |-> 0, raised |-> "", value |-> None]
    /\ fed = <<>>
    /\ was_reset = FALSE
    /\ processor_analyzer = None
    /\ processed_frames = <<>>
    /\ analysis_results = <<>>
    /\ video_pc = "idle"
    /\ frame_count = 0
    /\ cap = "none"
    /\ video_writer = "none"
    /\ written = <<>>
    /\ video_ret = [raised |-> "", value |-> None]
    /\ camera_analyzer = None
    /\ camera = None
    /\ devices = <<>>
    /\ is_running = FALSE
    /\ current_frame = None
    /\ current_analysis = None
    /\ current_pose_results = [py |-> "unset"]
    /\ frame_lock = <<>>
    /\ thread_pc = [t \in Threads |-> "unstarted"]
    /\ thread_local = [t \in Threads |-> NoLocals]
    /\ started = 0
    /\ frames_read = 0
    /\ main_pc = "idle"
    /\ camera_ret = [op |-> "none", raised |-> "", value |-> None]
    /\ slot_log = NoLog
    /\ observed = [slot |-> NoLog, rep_count |-> 0]

\* analyzer = create_analyzer(exercise_type): a new analyzer replaces the
\* caller's; when it raises, the caller keeps what it had
CreateAnalyzer(exercise_type) ==
    LET made == create_analyzer(exercise_type)
    IN  IF made = "ValueError"
        THEN /\ ret' = [op |-> "create_analyzer", arg |-> exercise_type,
                        raised |-> "ValueError", value |-> None]
             /\ UNCHANGED <<analyzer_vars, fed, was_reset, pipeline_vars>>
        ELSE /\ analyzer_class' = made
             /\ SetSession(ExerciseAnalyzer_init)
             /\ ret' = [op |-> "create_analyzer", arg |-> exercise_type,
                        raised |-> "", value |-> made]
             /\ fed' = <<>>
             /\ was_reset' = FALSE
             /\ UNCHANGED pipeline_vars

\* analyzer.analyze_frame(get_landmarks(frame)) on a PushUpAnalyzer
PushUpAnalyzeFrame(frame) ==
    /\ analyzer_class = "PushUpAnalyzer"
    /\ frame /= 0 => Len(state_history) < MaxFrames
    /\ LET r == PushUp_analyze_frame(Session, get_landmarks(frame))
       IN  /\ SetSession(r.self)
           /\ ret' = [op |-> "analyze_frame", arg |-> frame, raised |-> "",
                      value |-> r.result]
    /\ fed' = IF frame = 0 THEN fed ELSE Append(fed, frame)
    /\ UNCHANGED <<analyzer_class, was_reset, pipeline_vars>>

\* analyzer.analyze_frame(get_landmarks(frame)) on a SquatAnalyzer
SquatAnalyzeFrame(frame) ==
    /\ analyzer_class = "SquatAnalyzer"
    /\ frame /= 0 => Len(state_history) < MaxFrames
    /\ LET r == Squat_analyze_frame(Session, get_landmarks(frame))
       IN  /\ SetSession(r.self)
           /\ ret' = [op |-> "analyze_frame", arg |-> frame, raised |-> "",
                      value |-> r.result]
    /\ fed' = IF frame = 0 THEN fed ELSE Append(fed, frame)
    /\ UNCHANGED <<analyzer_class, was_reset, pipeline_vars>>

\* analyzer.get_form_feedback(get_landmarks(frame)) called on its own
PushUpGetFormFeedback(frame) ==
    /\ analyzer_class = "PushUpAnalyzer"
    /\ ret' = [op |-> "get_form_feedback", arg |-> frame, raised |-> "",
               value |-> PushUp_get_form_feedback(get_landmarks(frame), current_state)]
    /\ UNCHANGED <<analyzer_vars, fed, was_reset, pipeline_vars>>

SquatGetFormFeedback(frame) ==
    /\ analyzer_class = "SquatAnalyzer"
    /\ ret' = [op |-> "get_form_feedback", arg |-> frame, raised |-> "",
               value |-> Squat_get_form_feedback(get_landmarks(frame), current_state)]
    /\ UNCHANGED <<analyzer_vars, fed, was_reset, pipeline_vars>>

\* analyzer.reset()
Reset ==
    /\ analyzer_class /= "none"
    /\ SetSession(ExerciseAnalyzer_reset)
    /\ ret' = [op |-> "reset", arg |-> 0, raised |-> "", value |-> None]
    /\ fed' = <<>>
    /\ was_reset' = (was_reset \/ Len(fed) > 0)
    /\ UNCHANGED <<analyzer_class, pipeline_vars>>

\* The points calculate_angle is called with
Points == (0..MaxCoordinate) \X (0..MaxCoordinate)

\* calculate_angle(a, b, c) called on its own, one call
CalculateAngle(a, b, c) ==
    /\ ret.op = "none"
    /\ ret' = [op |-> "calculate_angle", arg |-> <<a, b, c>>, raised |-> "",
               value |-> calculate_angle(a, b, c)]
    /\ UNCHANGED <<analyzer_vars, fed, was_reset, pipeline_vars>>

NextAngle == \E a \in Points, b \in Points, c \in Points : CalculateAngle(a, b, c)

SpecAngle == Init /\ [][NextAngle]_vars

\* The indices get_landmark_coordinates is called with
Indices == (0 - MaxIndex)..MaxIndex

\* landmarks[landmark_idx] raises IndexError below -len(landmarks)
IndexRaises(landmarks, landmark_idx) ==
    landmarks /= None /\ landmark_idx < 0 - Len(landmarks)

\* get_landmark_coordinates(landmarks, landmark_idx) called on its own, one
\* call, on what the detector gave for the frame
GetLandmarkCoordinates(frame, landmark_idx) ==
    /\ ret.op = "none"
    /\ ~IndexRaises(get_landmarks(frame), landmark_idx)
    /\ ret' = [op |-> "get_landmark_coordinates", arg |-> <<frame, landmark_idx>>,
               raised |-> "",
               value |-> get_landmark_coordinates(get_landmarks(frame), landmark_idx)]
    /\ UNCHANGED <<analyzer_vars, fed, was_reset, pipeline_vars>>

\* The same call with an index below -len(landmarks): the exception leaves
\* the function
GetLandmarkCoordinatesRaises(frame, landmark_idx) ==
    /\ ret.op = "none"
    /\ IndexRaises(get_landmarks(frame), landmark_idx)
    /\ ret' = [op |-> "get_landmark_coordinates", arg |-> <<frame, landmark_idx>>,
               raised |-> "IndexError", value |-> None]
    /\ UNCHANGED <<analyzer_vars, fed, was_reset, pipeline_vars>>

NextLandmark ==
    \/ \E frame \in Frames, landmark_idx \in Indices :
           GetLandmarkCoordinates(frame, landmark_idx)
    \/ \E frame \in Frames, landmark_idx \in Indices :
           GetLandmarkCoordinatesRaises(frame, landmark_idx)

SpecLandmark == Init /\ [][NextLandmark]_vars

\* The frames of a long session: none, an UP pose, a DOWN pose and the
\* short pose
CountFrames == { 0, 1, 2, ShortFrame }

\* analyzer.analyze_frame(get_landmarks(frame)) on the analyzer the caller
\* holds, of either class
AnalyzeFrame(frame) ==
    /\ analyzer_class /= "none"
    /\ frame /= 0 => Len(state_history) < MaxCountFrames
    /\ LET r == analyze_frame(analyzer_class, Session, get_landmarks(frame))
       IN  /\ SetSession(r.self)
           /\ ret' = [op |-> "analyze_frame", arg |-> frame, raised |-> "",
                      value |-> r.result]
    /\ fed' = IF frame = 0 THEN fed ELSE Append(fed, frame)
    /\ UNCHANGED <<analyzer_class, was_reset, pipeline_vars>>

\* One analyzer fed a long run of frames
NextCount ==
    \/ \E exercise_type \in SelectedTypes : CreateAnalyzer(exercise_type)
    \/ \E frame \in CountFrames : AnalyzeFrame(frame)
    \/ Reset

SpecCount == Init /\ [][NextCount]_vars

---------------------------------------------------------------------------
(* The batch pipeline as a caller drives it.  process_video runs in the    *)
(* caller's thread: one step opens the file, one step per frame read, one  *)
(* step for the failed read that ends the loop and all that follows it.    *)
(* video_info's fps, duration and resolution are copied from the file's    *)
(* properties and are left out.                                            *)

\* The analyzers a caller hands to set_exercise_analyzer
Analyzers == { None, [py |-> "PushUpAnalyzer"], [py |-> "SquatAnalyzer"] }

\* processor.set_exercise_analyzer(analyzer), analyzer None or a new
\* analyzer of a class
SetExerciseAnalyzer(analyzer) ==
    /\ video_pc = "idle"
    /\ IF analyzer = None
       THEN /\ processor_analyzer' = None
            /\ UNCHANGED <<analyzer_vars, ret, fed, was_reset>>
       ELSE /\ processor_analyzer' = [py |-> "analyzer"]
            /\ analyzer_class' = analyzer.py
            /\ SetSession(ExerciseAnalyzer_reset)
            /\ ret' = [op |-> "reset", arg |-> 0, raised |-> "", value |-> None]
            /\ fed' = <<>>
            /\ was_reset' = FALSE
    /\ UNCHANGED <<processed_frames, analysis_results, video_pc, frame_count,
                   cap, video_writer, written, video_ret, stream_vars>>

\* Mutant of process_video: the analyzer is reset where the results are
\* cleared
ProcessVideoOpen_resets(opened, output_path) ==
    /\ video_pc = "idle"
    /\ IF processor_analyzer = None \/ ~opened
       THEN /\ video_ret' = [raised |-> "ValueError", value |-> None]
            /\ UNCHANGED <<processed_frames, analysis_results, video_pc,
                           frame_count, cap, video_writer, written,
                           analyzer_vars, fed>>
       ELSE /\ cap' = "open"
            /\ video_writer' = IF output_path THEN "open" ELSE "none"
            /\ written' = <<>>
            /\ frame_count' = 0
            /\ processed_frames' = <<>>
            /\ analysis_results' = <<>>
            /\ video_pc' = "loop"
            /\ video_ret' = [raised |-> "", value |-> None]
            /\ SetSession(ExerciseAnalyzer_reset)
            /\ fed' = <<>>
            /\ UNCHANGED analyzer_class
    /\ UNCHANGED <<ret, was_reset, processor_analyzer, stream_vars>>

\* process_video(video_path, output_path) up to the while loop; opened is
\* what cap.isOpened() answers, output_path whether one is given
ProcessVideoOpen(opened, output_path) ==
    /\ video_pc = "idle"
    /\ IF processor_analyzer = None \/ ~opened
       THEN /\ video_ret' = [raised |-> "ValueError", value |-> None]
            /\ UNCHANGED <<processed_frames, analysis_results, video_pc,
                           frame_count, cap, video_writer, written>>
       ELSE /\ cap' = "open"
            /\ video_writer' = IF output_path THEN "open" ELSE "none"
            /\ written' = <<>>
            /\ frame_count' = 0
            /\ processed_frames' = <<>>
            /\ analysis_results' = <<>>
            /\ video_pc' = "loop"
            /\ video_ret' = [raised |-> "", value |-> None]
    /\ UNCHANGED <<analyzer_vars, ret, fed, was_reset, processor_analyzer,
                   stream_vars>>

\* The frames a video file holds: one without a pose, and poses with no,
\* one and two feedback items
VideoFrames == { 0, 1, 2, 3, 4 }

\* The rest of a turn of the while loop once _process_frame has answered r
StoreFrameResult(frame, r) ==
    /\ SetSession(r.self)
    /\ ret' = [op |-> "analyze_frame", arg |-> frame, raised |-> "",
               value |-> r.result.analysis]
    /\ analysis_results' = Append(analysis_results, r.result)
    /\ processed_frames' =
           Append(processed_frames,
                  VideoProcessor_draw_analysis_on_frame(frame, r.result))
    /\ written' =
           IF video_writer = "open"
           THEN Append(written,
                       VideoProcessor_draw_analysis_on_frame(frame, r.result))
           ELSE written
    /\ frame_count' = frame_count + 1

\* One turn of the while loop in which cap.read() gives a frame
ProcessVideoFrame(frame) ==
    /\ video_pc = "loop"
    /\ frame_count < MaxVideoFrames
    /\ frame /= 0 => Len(state_history) < MaxFrames
    /\ StoreFrameResult(frame,
                        VideoProcessor_process_frame(analyzer_class, Session,
                                                     frame, frame_count))
    /\ fed' = IF frame = 0 THEN fed ELSE Append(fed, frame)
    /\ UNCHANGED <<analyzer_class, was_reset, processor_analyzer, video_pc,
                   cap, video_writer, video_ret, stream_vars>>

\* Mutant of ProcessVideoEnd: the finally clause releases the capture only
ProcessVideoEnd_keeps_writer ==
    /\ video_pc = "loop"
    /\ cap' = "released"
    /\ video_writer' = video_writer
    /\ video_pc' = "idle"
    /\ video_ret' =
           [raised |-> "",
            value |-> [summary |-> VideoProcessor_generate_summary(analysis_results),
                       frame_results |-> analysis_results,
                       processed_frames |-> processed_frames,
                       video_info |-> [frame_count |-> frame_count]]]
    /\ UNCHANGED <<analyzer_vars, ret, fed, was_reset, processor_analyzer,
                   processed_frames, analysis_results, frame_count, written,
                   stream_vars>>

\* The turn in which cap.read() fails: break, the finally clause, the
\* summary and the return
ProcessVideoEnd ==
    /\ video_pc = "loop"
    /\ cap' = "released"
    /\ video_writer' = IF video_writer = "open" THEN "released" ELSE video_writer
    /\ video_pc' = "idle"
    /\ video_ret' =
           [raised |-> "",
            value |-> [summary |-> VideoProcessor_generate_summary(analysis_results),
                       frame_results |-> analysis_results,
                       processed_frames |-> processed_frames,
                       video_info |-> [frame_count |-> frame_count]]]
    /\ UNCHANGED <<analyzer_vars, ret, fed, was_reset, processor_analyzer,
                   processed_frames, analysis_results, frame_count, written,
                   stream_vars>>

NextBatch ==
    \/ \E analyzer \in Analyzers : SetExerciseAnalyzer(analyzer)
    \/ \E opened \in BOOLEAN, output_path \in BOOLEAN :
          ProcessVideoOpen(opened, output_path)
    \/ \E frame \in VideoFrames : ProcessVideoFrame(frame)
    \/ ProcessVideoEnd

SpecBatch == Init /\ [][NextBatch]_vars

\* A turn of the while loop of process_video: the read fails, or it gives a
\* frame
LoopTurn ==
    \/ ProcessVideoEnd
    \/ \E frame \in VideoFrames : ProcessVideoFrame(frame)

\* Each turn of the loop that process_video has begun completes: the read,
\* the analysis, the drawing and the write return
FairSpecBatch == SpecBatch /\ WF_vars(LoopTurn)

\* Where a turn of the while loop raises: in the pose detector, before the
\* analyzer is called, or in video_writer.write, after the frame's result
\* and annotated frame have been appended
RaisePoints == { "detect", "write" }

\* A turn of the while loop once _process_frame has answered r, up to the
\* call of video_writer.write
StoreUnwrittenResult(frame, r) ==
    /\ SetSession(r.self)
    /\ ret' = [op |-> "analyze_frame", arg |-> frame, raised |-> "",
               value |-> r.result.analysis]
    /\ analysis_results' = Append(analysis_results, r.result)
    /\ processed_frames' =
           Append(processed_frames,
                  VideoProcessor_draw_analysis_on_frame(frame, r.result))

\* Mutant of ProcessVideoFrameRaises: no finally clause
ProcessVideoFrameRaises_no_finally(frame, at) ==
    /\ video_pc = "loop"
    /\ frame_count < MaxVideoFrames
    /\ IF at = "detect"
       THEN UNCHANGED <<analyzer_vars, ret, fed, processed_frames,
                        analysis_results>>
       ELSE /\ video_writer = "open"
            /\ frame /= 0 => Len(state_history) < MaxFrames
            /\ StoreUnwrittenResult(frame,
                                    VideoProcessor_process_frame(analyzer_class, Session,
                                                                 frame, frame_count))
            /\ fed' = IF frame = 0 THEN fed ELSE Append(fed, frame)
            /\ UNCHANGED analyzer_class
    /\ UNCHANGED <<cap, video_writer>>
    /\ video_pc' = "idle"
    /\ video_ret' = [raised |-> "Exception", value |-> None]
    /\ UNCHANGED <<was_reset, processor_analyzer, frame_count, written,
                   stream_vars>>

\* One turn of the while loop in which a call raises: the finally clause
\* runs and the exception leaves process_video
ProcessVideoFrameRaises(frame, at) ==
    /\ video_pc = "loop"
    /\ frame_count < MaxVideoFrames
    /\ IF at = "detect"
       THEN UNCHANGED <<analyzer_vars, ret, fed, processed_frames,
                        analysis_results>>
       ELSE /\ video_writer = "open"
            /\ frame /= 0 => Len(state_history) < MaxFrames
            /\ StoreUnwrittenResult(frame,
                                    VideoProcessor_process_frame(analyzer_class, Session,
                                                                 frame, frame_count))
            /\ fed' = IF frame = 0 THEN fed ELSE Append(fed, frame)
            /\ UNCHANGED analyzer_class
    /\ cap' = "released"
    /\ video_writer' = IF video_writer = "open" THEN "released" ELSE video_writer
    /\ video_pc' = "idle"
    /\ video_ret' = [raised |-> "Exception", value |-> None]
    /\ UNCHANGED <<was_reset, processor_analyzer, frame_count, written,
                   stream_vars>>

\* The frames of a video whose processing may raise: one without a pose and
\* an UP pose
FaultFrames == { 0, 1 }

NextBatchFaults ==
    \/ \E analyzer \in Analyzers : SetExerciseAnalyzer(analyzer)
    \/ \E opened \in BOOLEAN, output_path \in BOOLEAN :
          ProcessVideoOpen(opened, output_path)
    \/ \E frame \in FaultFrames : ProcessVideoFrame(frame)
    \/ \E frame \in FaultFrames, at \in RaisePoints :
          ProcessVideoFrameRaises(frame, at)
    \/ ProcessVideoEnd

SpecBatchFaults == Init /\ [][NextBatchFaults]_vars

---------------------------------------------------------------------------
(* The streaming pipeline: the caller's thread and the capture threads,    *)
(* one step per statement of _capture_frames that reads or writes what     *)
(* the threads share.  The sleep at the end of a turn is part of the step  *)
(* that leads back to the loop test.                                       *)

\* The frames the camera delivers: one without a pose, an UP and a DOWN pose
StreamFrames == { 0, 1, 2 }

\* The shared slot and the log of who assigned it
slot_vars == <<current_frame, current_analysis, current_pose_results, slot_log>>

\* camera.set_exercise_analyzer(analyzer), analyzer None or a new analyzer
\* of a class; as in create_camera_analyzer, before the camera is started
SetCameraExerciseAnalyzer(analyzer) ==
    /\ main_pc = "idle"
    /\ started = 0
    /\ IF analyzer = None
       THEN /\ camera_analyzer' = None
            /\ UNCHANGED <<analyzer_vars, ret, fed, was_reset>>
       ELSE /\ camera_analyzer' = [py |-> "analyzer"]
            /\ analyzer_class' = analyzer.py
            /\ SetSession(ExerciseAnalyzer_reset)
            /\ ret' = [op |-> "reset", arg |-> 0, raised |-> "", value |-> None]
            /\ fed' = <<>>
            /\ was_reset' = FALSE
    /\ camera_ret' = [op |-> "set_exercise_analyzer", raised |-> "", value |-> None]
    /\ UNCHANGED <<batch_vars, camera, devices, is_running, slot_vars,
                   frame_lock, thread_pc, thread_local, started, frames_read,
                   main_pc, observed>>

\* camera.start_camera(); opened is what cap.isOpened() answers
StartCamera(opened) ==
    /\ main_pc = "idle"
    /\ IF opened
       THEN /\ started < MaxStarts
            /\ devices' = Append(devices, 0)
            /\ camera' = [handle |-> Len(devices) + 1]
            /\ is_running' = TRUE
            /\ started' = started + 1
            /\ thread_pc' = [thread_pc EXCEPT ![started + 1] = "while"]
            /\ camera_ret' = [op |-> "start_camera", raised |-> "", value |-> None]
       ELSE /\ camera' = [handle |-> 0]
            /\ camera_ret' = [op |-> "start_camera", raised |-> "ValueError",
                              value |-> None]
            /\ UNCHANGED <<devices, is_running, started, thread_pc>>
    /\ UNCHANGED <<analyzer_vars, ret, fed, was_reset, batch_vars,
                   camera_analyzer, slot_vars, frame_lock, thread_local,
                   frames_read, main_pc, observed>>

\* Mutant of StopCamera: release() is called on self.cap without the test
\* that a capture was ever created
StopCamera_unguarded ==
    /\ main_pc = "idle"
    /\ is_running' = FALSE
    /\ IF camera /= None
       THEN /\ camera.handle >= 1 => devices[camera.handle] < MaxReleases
            /\ devices' = release(camera, devices)
            /\ camera_ret' = [op |-> "stop_camera", raised |-> "",
                              value |-> None]
       ELSE /\ UNCHANGED devices
            /\ camera_ret' = [op |-> "stop_camera",
                              raised |-> "AttributeError", value |-> None]
    /\ UNCHANGED <<analyzer_vars, ret, fed, was_reset, batch_vars,
                   camera_analyzer, camera, slot_vars, frame_lock, thread_pc,
                   thread_local, started, frames_read, main_pc, observed>>

\* camera.stop_camera()
StopCamera ==
    /\ main_pc = "idle"
    /\ is_running' = FALSE
    /\ IF camera /= None
       THEN /\ camera.handle >= 1 => devices[camera.handle] < MaxReleases
            /\ devices' = release(camera, devices)
       ELSE UNCHANGED devices
    /\ camera_ret' = [op |-> "stop_camera", raised |-> "", value |-> None]
    /\ UNCHANGED <<analyzer_vars, ret, fed, was_reset, batch_vars,
                   camera_analyzer, camera, slot_vars, frame_lock, thread_pc,
                   thread_local, started, frames_read, main_pc, observed>>

\* Mutant of GetCurrentAcquire: the slot is read without waiting for the lock
GetCurrentAcquire_unlocked ==
    /\ main_pc = "idle"
    /\ main_pc' = "get"
    /\ UNCHANGED <<analyzer_vars, ret, fed, was_reset, batch_vars,
                   camera_analyzer, camera, devices, is_running, slot_vars,
                   frame_lock, thread_pc, thread_local, started, frames_read,
                   camera_ret, observed>>

\* get_current_frame_and_analysis: "with self.frame_lock" is entered
GetCurrentAcquire ==
    /\ main_pc = "idle"
    /\ frame_lock = <<>>
    /\ frame_lock' = <<MainThread>>
    /\ main_pc' = "get"
    /\ UNCHANGED <<analyzer_vars, ret, fed, was_reset, batch_vars,
                   camera_analyzer, camera, devices, is_running, slot_vars,
                   thread_pc, thread_local, started, frames_read, camera_ret,
                   observed>>

\* The rep_count a consumer reads in an analysis, 0 where there is none
observed_rep_count(analysis) ==
    IF analysis = None THEN 0 ELSE analysis.rep_count

\* get_current_frame_and_analysis: the body of the with statement, the
\* release of the lock and the return
GetCurrentCopy ==
    /\ main_pc = "get"
    /\ camera_ret' =
           [op |-> "get_current_frame_and_analysis", raised |-> "",
            value |-> IF current_frame /= None
                      THEN <<current_frame, current_analysis,
                             getattr_current_pose_results(current_pose_results)>>
                      ELSE <<None, None, None>>]
    /\ observed' = IF current_frame /= None
                   THEN [slot |-> slot_log,
                         rep_count |-> observed_rep_count(current_analysis)]
                   ELSE observed
    /\ frame_lock' = <<>>
    /\ main_pc' = "idle"
    /\ UNCHANGED <<analyzer_vars, ret, fed, was_reset, batch_vars,
                   camera_analyzer, camera, devices, is_running, slot_vars,
                   thread_pc, thread_local, started, frames_read>>

\* What a step of a capture thread leaves alone besides what it names
capture_unchanged == <<batch_vars, camera_analyzer, camera, devices, is_running,
                       started, main_pc, camera_ret, observed>>

\* Mutant of CaptureWhile: the loop does not test the flag
CaptureWhile_forever(t) ==
    /\ thread_pc[t] = "while"
    /\ thread_pc' = [thread_pc EXCEPT ![t] = "check"]
    /\ UNCHANGED <<analyzer_vars, ret, fed, was_reset, capture_unchanged,
                   slot_vars, frame_lock, thread_local, frames_read>>

\* _capture_frames: "while self.is_running"
CaptureWhile(t) ==
    /\ thread_pc[t] = "while"
    /\ thread_pc' = [thread_pc EXCEPT ![t] = IF is_running THEN "check" ELSE "done"]
    /\ UNCHANGED <<analyzer_vars, ret, fed, was_reset, capture_unchanged,
                   slot_vars, frame_lock, thread_local, frames_read>>

\* _capture_frames: "if self.cap and self.cap.isOpened()", and the sleep
\* when it is false
CaptureCheck(t) ==
    /\ thread_pc[t] = "check"
    /\ thread_pc' = [thread_pc EXCEPT
                        ![t] = IF isOpened(camera, devices) THEN "read" ELSE "while"]
    /\ UNCHANGED <<analyzer_vars, ret, fed, was_reset, capture_unchanged,
                   slot_vars, frame_lock, thread_local, frames_read>>

\* _capture_frames: "ret, frame = self.cap.read()" gives a frame, the next
\* of those the camera delivers
CaptureRead(t, frame) ==
    /\ thread_pc[t] = "read"
    /\ isOpened(camera, devices)
    /\ frames_read < MaxStreamFrames
    /\ frames_read' = frames_read + 1
    /\ thread_local' = [thread_local EXCEPT
                           ![t] = [NoLocals EXCEPT !.ret = TRUE,
                                                   !.frame = [frame |-> frame],
                                                   !.seq = frames_read + 1]]
    /\ thread_pc' = [thread_pc EXCEPT ![t] = "lock"]
    /\ UNCHANGED <<analyzer_vars, ret, fed, was_reset, capture_unchanged,
                   slot_vars, frame_lock>>

\* Mutant of CaptureReadFails: the missed read clears the frame of the slot
CaptureReadFails_clears_slot(t) ==
    /\ thread_pc[t] = "read"
    /\ thread_local' = [thread_local EXCEPT ![t] = NoLocals]
    /\ thread_pc' = [thread_pc EXCEPT ![t] = "while"]
    /\ current_frame' = None
    /\ UNCHANGED <<analyzer_vars, ret, fed, was_reset, capture_unchanged,
                   current_analysis, current_pose_results, slot_log,
                   frame_lock, frames_read>>

\* _capture_frames: cap.read() gives no frame, and the sleep
CaptureReadFails(t) ==
    /\ thread_pc[t] = "read"
    /\ thread_local' = [thread_local EXCEPT ![t] = NoLocals]
    /\ thread_pc' = [thread_pc EXCEPT ![t] = "while"]
    /\ UNCHANGED <<analyzer_vars, ret, fed, was_reset, capture_unchanged,
                   slot_vars, frame_lock, frames_read>>

\* _capture_frames: "with self.frame_lock" is entered
CaptureAcquire(t) ==
    /\ thread_pc[t] = "lock"
    /\ frame_lock = <<>>
    /\ frame_lock' = <<t>>
    /\ thread_pc' = [thread_pc EXCEPT ![t] = "copy"]
    /\ UNCHANGED <<analyzer_vars, ret, fed, was_reset, capture_unchanged,
                   slot_vars, thread_local, frames_read>>

\* _capture_frames: "self.current_frame = frame.copy()"
CaptureCopy(t) ==
    /\ thread_pc[t] = "copy"
    /\ current_frame' = thread_local[t].frame
    /\ slot_log' = [slot_log EXCEPT !.frame = thread_local[t].seq]
    /\ thread_pc' = [thread_pc EXCEPT ![t] = "process"]
    /\ UNCHANGED <<analyzer_vars, ret, fed, was_reset, capture_unchanged,
                   current_analysis, current_pose_results, frame_lock,
                   thread_local, frames_read>>

\* The rest of the process_frame step once process_frame has answered r
StoreProcessed(t, frame, r) ==
    /\ SetSession(r.self)
    /\ ret' = IF r.analyzed
              THEN [op |-> "analyze_frame", arg |-> frame, raised |-> "",
                    value |-> r.analysis]
              ELSE ret
    /\ fed' = IF r.analyzed /\ frame /= 0 THEN Append(fed, frame) ELSE fed
    /\ thread_local' = [thread_local EXCEPT ![t].analysis = r.analysis,
                                            ![t].pose_results = r.pose_results]

\* _capture_frames: "analysis, pose_results = self.process_frame(frame)"
CaptureProcess(t) ==
    /\ thread_pc[t] = "process"
    /\ StoreProcessed(t, thread_local[t].frame.frame,
                      CameraAnalyzer_process_frame(is_running, camera_analyzer,
                                                   analyzer_class, Session,
                                                   thread_local[t].frame.frame))
    /\ thread_pc' = [thread_pc EXCEPT ![t] = "publish"]
    /\ UNCHANGED <<analyzer_class, was_reset, capture_unchanged, slot_vars,
                   frame_lock, frames_read>>

\* _capture_frames: the two assignments that publish the analysis, the end
\* of the with statement, and the sleep
CapturePublish(t) ==
    /\ thread_pc[t] = "publish"
    /\ current_analysis' = thread_local[t].analysis
    /\ current_pose_results' = thread_local[t].pose_results
    /\ slot_log' = [slot_log EXCEPT !.analysis = thread_local[t].seq,
                                    !.pose_results = thread_local[t].seq]
    /\ frame_lock' = <<>>
    /\ thread_pc' = [thread_pc EXCEPT ![t] = "while"]
    /\ UNCHANGED <<analyzer_vars, ret, fed, was_reset, capture_unchanged,
                   current_frame, thread_local, frames_read>>

\* One CameraAnalyzer as the application drives it: the analyzer is set,
\* the camera is started once, polled and stopped
NextStream ==
    \/ \E analyzer \in Analyzers : SetCameraExerciseAnalyzer(analyzer)
    \/ (started = 0 /\ StartCamera(TRUE))
    \/ StopCamera
    \/ GetCurrentAcquire
    \/ GetCurrentCopy
    \/ \E t \in Threads : CaptureWhile(t)
    \/ \E t \in Threads : CaptureCheck(t)
    \/ \E t \in Threads, frame \in StreamFrames : CaptureRead(t, frame)
    \/ \E t \in Threads : CaptureReadFails(t)
    \/ \E t \in Threads : CaptureAcquire(t)
    \/ \E t \in Threads : CaptureCopy(t)
    \/ \E t \in Threads : CaptureProcess(t)
    \/ \E t \in Threads : CapturePublish(t)

SpecStream == Init /\ [][NextStream]_vars

\* The steps of capture thread t outside process_frame that wait for
\* nothing
CaptureStep(t) ==
    \/ CaptureWhile(t)
    \/ CaptureCheck(t)
    \/ \E frame \in StreamFrames : CaptureRead(t, frame)
    \/ CaptureReadFails(t)
    \/ CaptureCopy(t)
    \/ CapturePublish(t)

\* The capture thread is scheduled, and its read and its sleep return; its
\* call of process_frame returns (the step CaptureProcess is possible
\* whenever the thread is in that call); a capture thread that waits for
\* the lock gets it at one of the times it is free; the consumer leaves
\* its with block
FairStream ==
    /\ \A t \in Threads : /\ WF_vars(CaptureStep(t))
                          /\ []<>(thread_pc[t] /= "process")
                          /\ SF_vars(CaptureAcquire(t))
    /\ WF_vars(GetCurrentCopy)

\* One push-up session that is started and stopped, on a camera that
\* delivers frames of the up and the down pose, under those assumptions
ShutdownFrames == {1, 2}

NextShutdown ==
    \/ SetCameraExerciseAnalyzer([py |-> "PushUpAnalyzer"])
    \/ (started = 0 /\ StartCamera(TRUE))
    \/ StopCamera
    \/ GetCurrentAcquire
    \/ GetCurrentCopy
    \/ \E t \in Threads : CaptureWhile(t)
    \/ \E t \in Threads : CaptureCheck(t)
    \/ \E t \in Threads, frame \in ShutdownFrames : CaptureRead(t, frame)
    \/ \E t \in Threads : CaptureReadFails(t)
    \/ \E t \in Threads : CaptureAcquire(t)
    \/ \E t \in Threads : CaptureCopy(t)
    \/ \E t \in Threads : CaptureProcess(t)
    \/ \E t \in Threads : CapturePublish(t)

FairSpecShutdown == Init /\ [][NextShutdown]_vars /\ FairStream

\* _capture_frames: cap.read() raises; nothing in _capture_frames catches
\* it, so the thread ends with the exception
CaptureReadRaises(t) ==
    /\ thread_pc[t] = "read"
    /\ thread_pc' = [thread_pc EXCEPT ![t] = "raised"]
    /\ UNCHANGED <<analyzer_vars, ret, fed, was_reset, capture_unchanged,
                   slot_vars, frame_lock, thread_local, frames_read>>

\* _capture_frames: process_frame raises (colour conversion, pose detection
\* or the analyzer); the with statement releases the lock and the thread
\* ends with the exception
CaptureProcessRaises(t) ==
    /\ thread_pc[t] = "process"
    /\ frame_lock' = <<>>
    /\ thread_pc' = [thread_pc EXCEPT ![t] = "raised"]
    /\ UNCHANGED <<analyzer_vars, ret, fed, was_reset, capture_unchanged,
                   slot_vars, thread_local, frames_read>>

\* The live loop of the page: a statement of the try block after the poll
\* raises (drawing, colour conversion, display)
ConsumerRaises ==
    /\ main_pc = "idle"
    /\ camera_ret.op = "get_current_frame_and_analysis"
    /\ main_pc' = "except"
    /\ UNCHANGED <<analyzer_vars, ret, fed, was_reset, batch_vars,
                   camera_analyzer, camera, devices, is_running, slot_vars,
                   frame_lock, thread_pc, thread_local, started, frames_read,
                   camera_ret, observed>>

\* The handler of the live loop: st.error(f"Camera error: ...")
ReportError ==
    /\ main_pc = "except"
    /\ camera_ret' = [op |-> "st.error", raised |-> "", value |-> None]
    /\ main_pc' = "stop"
    /\ UNCHANGED <<analyzer_vars, ret, fed, was_reset, batch_vars,
                   camera_analyzer, camera, devices, is_running, slot_vars,
                   frame_lock, thread_pc, thread_local, started, frames_read,
                   observed>>

\* The handler of the live loop after the report: camera_running = False,
\* stop_camera() and the break
HandlerStopCamera ==
    /\ main_pc = "stop"
    /\ is_running' = FALSE
    /\ IF camera /= None
       THEN /\ camera.handle >= 1 => devices[camera.handle] < MaxReleases
            /\ devices' = release(camera, devices)
       ELSE UNCHANGED devices
    /\ camera_ret' = [op |-> "stop_camera", raised |-> "", value |-> None]
    /\ main_pc' = "idle"
    /\ UNCHANGED <<analyzer_vars, ret, fed, was_reset, batch_vars,
                   camera_analyzer, camera, slot_vars, frame_lock, thread_pc,
                   thread_local, started, frames_read, observed>>

\* The streaming pipeline with the steps that raise
NextStreamFaults ==
    \/ NextStream
    \/ \E t \in Threads : CaptureReadRaises(t)
    \/ \E t \in Threads : CaptureProcessRaises(t)
    \/ ConsumerRaises
    \/ ReportError
    \/ HandlerStopCamera

SpecStreamFaults == Init /\ [][NextStreamFaults]_vars

\* Every sequence of start_camera and stop_camera calls on one
\* CameraAnalyzer, with the capture threads they start, on a camera that
\* delivers no frame
NextCamera ==
    \/ \E opened \in BOOLEAN : StartCamera(opened)
    \/ StopCamera
    \/ \E t \in Threads : CaptureWhile(t)
    \/ \E t \in Threads : CaptureCheck(t)
    \/ \E t \in Threads : CaptureReadFails(t)

SpecCamera == Init /\ [][NextCamera]_vars

---------------------------------------------------------------------------
\* The life of an analyzer: created for a selected exercise, fed frames, reset
Next ==
    \/ \E exercise_type \in SelectedTypes : CreateAnalyzer(exercise_type)
    \/ \E frame \in Frames : PushUpAnalyzeFrame(frame)
    \/ \E frame \in Frames : SquatAnalyzeFrame(frame)
    \/ Reset

Spec == Init /\ [][Next]_vars

\* The whole analyzer API on short histories: every exercise_type, and
\* get_form_feedback called on its own
NextApi ==
    \/ \E exercise_type \in ExerciseTypes : CreateAnalyzer(exercise_type)
    \/ \E frame \in Frames :
          /\ frame /= 0 => Len(state_history) < MaxApiFrames
          /\ PushUpAnalyzeFrame(frame)
    \/ \E frame \in Frames :
          /\ frame /= 0 => Len(state_history) < MaxApiFrames
          /\ SquatAnalyzeFrame(frame)
    \/ \E frame \in Frames : PushUpGetFormFeedback(frame)
    \/ \E frame \in Frames : SquatGetFormFeedback(frame)
    \/ Reset

SpecApi == Init /\ [][NextApi]_vars

---------------------------------------------------------------------------
(* Properties of the analyzers.                                            *)

Last(seq) == seq[Len(seq)]

\* The step is an analyze_frame call with landmarks present
AnalyzedStep ==
    /\ ret'.op = "analyze_frame"
    /\ ret'.arg /= 0
    /\ Len(state_history') = Len(state_history) + 1

\* C1 as stated: an analyze_frame call with landmarks present increments
\* rep_count if and only if the last state recorded before the call is DOWN
\* and the state classified for the call is UP.
C1_AsStated ==
    [][AnalyzedStep =>
         ((rep_count' = rep_count + 1)
            <=> (/\ Len(state_history) >= 1
                 /\ Last(state_history) = DOWN
                 /\ ret'.value.state = UP))]_vars

\* C1 amended: an analyze_frame call with landmarks present increments
\* rep_count if and only if at least two states are recorded before the
\* call, the last of them is DOWN and the state classified for the call is
\* UP; otherwise rep_count is unchanged.
C1_RepIffDownUpAfterTwo ==
    [][AnalyzedStep =>
         /\ (rep_count' = rep_count + 1)
              <=> (/\ Len(state_history) >= 2
                   /\ Last(state_history) = DOWN
                   /\ ret'.value.state = UP)
         /\ rep_count' \in {rep_count, rep_count + 1}]_vars

\* A rep was counted on a DOWN to UP step
C1_Witness ==
    /\ ret.op = "analyze_frame"
    /\ ret.arg /= 0
    /\ Len(state_history) = 3
    /\ state_history[2] = DOWN
    /\ state_history[3] = UP
    /\ rep_count = 1

\* C2: between two resets every analyze_frame call leaves rep_count
\* unchanged or adds exactly 1; it adds nothing when the classified state
\* is DOWN or when the previously recorded state is UP; the states UP,
\* DOWN, UP fed to a fresh analyzer give rep_count 0, 0, 1.
C2_RepCountSteps ==
    /\ [][ret'.op \notin {"reset", "create_analyzer"} =>
            /\ rep_count' \in {rep_count, rep_count + 1}
            /\ rep_count' /= rep_count =>
                 /\ current_state' = UP
                 /\ Len(state_history) >= 1
                 /\ Last(state_history) = DOWN]_vars
    /\ [](/\ state_history = <<UP>> => rep_count = 0
          /\ state_history = <<UP, DOWN>> => rep_count = 0
          /\ state_history = <<UP, DOWN, UP>> => rep_count = 1)

\* UP, DOWN, UP has been fed and counted once
C2_Witness ==
    /\ state_history = <<UP, DOWN, UP>>
    /\ rep_count = 1
    /\ ret.op = "analyze_frame"

\* C3: analyze_frame with absent landmarks returns the current rep_count
\* and current_state with empty angles and empty feedback, and changes
\* neither rep_count, current_state nor any of the three histories.
C3_AbsentLandmarksNoEffect ==
    [][(ret'.op = "analyze_frame" /\ ret'.arg = 0) =>
         /\ UNCHANGED <<rep_count, current_state, state_history,
                        angle_history, feedback_history>>
         /\ ret'.value = [rep_count |-> rep_count, state |-> current_state,
                          angles |-> <<>>, feedback |-> <<>>]]_vars

\* A frame without landmarks was analyzed after frames that counted a rep
C3_Witness ==
    /\ ret.op = "analyze_frame"
    /\ ret.arg = 0
    /\ ret.value.rep_count = 1
    /\ ret.value.state = UP
    /\ Len(state_history) = 3

\* The state a single-threshold classifier gives to an angle set
ThresholdState(angles, name, threshold) ==
    IF name \in DOMAIN angles /\ angles[name] /= NaN /\ angles[name] < Deg(threshold)
    THEN DOWN
    ELSE UP

\* C4: with landmarks present the state returned and recorded is DOWN
\* exactly when the frame's elbow angle (push-up) is strictly below 90, or
\* its knee angle (squat) strictly below 110, and UP otherwise, whatever
\* the previous state.  Frame 2 (elbow and knee about 70) is DOWN, frame 3
\* (elbow exactly 90, knee about 110.2) is UP.
C4_StateFromAngleAlone ==
    (ret.op = "analyze_frame" /\ ret.arg /= 0) =>
        /\ analyzer_class = "PushUpAnalyzer" =>
             ret.value.state = ThresholdState(ret.value.angles, "elbow", 90)
        /\ analyzer_class = "SquatAnalyzer" =>
             ret.value.state = ThresholdState(ret.value.angles, "knee", 110)
        /\ ret.arg = 2 => ret.value.state = DOWN
        /\ ret.arg = 3 => ret.value.state = UP
        /\ current_state = ret.value.state
        /\ Last(state_history) = ret.value.state
        /\ Last(angle_history) = ret.value.angles

\* An elbow angle of exactly 90 was classified UP right after a DOWN
C4_Witness ==
    /\ analyzer_class = "PushUpAnalyzer"
    /\ ret.op = "analyze_frame"
    /\ ret.arg /= 0
    /\ "elbow" \in DOMAIN ret.value.angles
    /\ ret.value.angles["elbow"] = Deg(90)
    /\ ret.value.state = UP
    /\ Len(state_history) >= 2
    /\ state_history[Len(state_history) - 1] = DOWN

\* The fields and the last result of a new analyzer of the class after
\* analyze_frame on each of the frames in turn
RECURSIVE FreshRun(_, _)
FreshRun(class, frames) ==
    IF frames = <<>>
    THEN [self |-> ExerciseAnalyzer_init, result |-> None]
    ELSE analyze_frame(class,
                       FreshRun(class, SubSeq(frames, 1, Len(frames) - 1)).self,
                       get_landmarks(frames[Len(frames)]))

\* C5: right after reset() rep_count is 0, current_state is UP and the
\* three histories are empty; and whatever was analyzed before the reset,
\* the frames analyzed since leave the analyzer in the state, and return
\* the results, that they give on a new analyzer of the same class.
C5_ResetIsFresh ==
    /\ ret.op = "reset" =>
         /\ rep_count = 0
         /\ current_state = UP
         /\ state_history = <<>>
         /\ angle_history = <<>>
         /\ feedback_history = <<>>
    /\ analyzer_class /= "none" =>
         /\ Session = FreshRun(analyzer_class, fed).self
         /\ (ret.op = "analyze_frame" /\ ret.arg /= 0) =>
              ret.value = FreshRun(analyzer_class, fed).result

\* After a reset of a used analyzer, three frames were analyzed and a rep counted
C5_Witness ==
    /\ was_reset
    /\ ret.op = "analyze_frame"
    /\ Len(fed) = 3
    /\ rep_count = 1

Messages(feedback) == {feedback[i].message : i \in 1..Len(feedback)}

Items(feedback) == {feedback[i] : i \in 1..Len(feedback)}

\* The elbow angle of a frame is d degrees to the whole degree
ElbowIs(frame, d) ==
    LET angles == PushUp_calculate_angles(get_landmarks(frame))
    IN  /\ "elbow" \in DOMAIN angles
        /\ angles["elbow"] \in {Deg(d), Deg(d) + 1}

SameIgnoringCase(s, t) ==
    /\ Len(s) = Len(t)
    /\ \A i \in 1..Len(s) :
          \/ s[i] = t[i]
          \/ (s[i] \in DOMAIN AsciiLower /\ AsciiLower[s[i]] = t[i])

\* C7: create_analyzer returns a push-up analyzer exactly for 'pushup' and
\* 'push-ups' in any case, a squat analyzer exactly for 'squat' and
\* 'squats' in any case, each with rep_count 0, state UP and empty
\* histories, and for every other value raises ValueError and returns no
\* analyzer.
C7_FactoryByName ==
    ret.op = "create_analyzer" =>
        LET isPushUp == \/ SameIgnoringCase(ret.arg, <<"p", "u", "s", "h", "u", "p">>)
                        \/ SameIgnoringCase(ret.arg, <<"p", "u", "s", "h", "-", "u", "p", "s">>)
            isSquat == \/ SameIgnoringCase(ret.arg, <<"s", "q", "u", "a", "t">>)
                       \/ SameIgnoringCase(ret.arg, <<"s", "q", "u", "a", "t", "s">>)
            made == ret.raised = "" /\ ret.value = analyzer_class
                    /\ rep_count = 0 /\ current_state = UP
                    /\ state_history = <<>> /\ angle_history = <<>>
                    /\ feedback_history = <<>>
        IN  /\ isPushUp <=> (ret.raised = "" /\ ret.value = "PushUpAnalyzer")
            /\ isSquat <=> (ret.raised = "" /\ ret.value = "SquatAnalyzer")
            /\ (isPushUp \/ isSquat) => made
            /\ ~(isPushUp \/ isSquat) => (ret.raised = "ValueError" /\ ret.value = None)

\* 'Push-ups', as the application passes it, gave a push-up analyzer
C7_Witness ==
    /\ ret.op = "create_analyzer"
    /\ ret.arg = <<"P", "u", "s", "h", "-", "u", "p", "s">>
    /\ ret.raised = ""
    /\ analyzer_class = "PushUpAnalyzer"

---------------------------------------------------------------------------
(* Properties of the batch pipeline.                                       *)

\* process_video has returned its results, which video_ret holds
Returned == video_ret.raised = "" /\ video_ret.value /= None

\* Every frame of the results has empty feedback
AllFeedbackEmpty(results) ==
    \A i \in 1..Len(results) : results[i].analysis.feedback = <<>>

\* Every frame of the results has at least one feedback item
AllFeedbackPresent(results) ==
    \A i \in 1..Len(results) : results[i].analysis.feedback /= <<>>

\* C8 as stated: the summary's form_accuracy is exactly 100 for every batch
\* session in which every frame has empty feedback and exactly 0 for every
\* batch session in which every frame has at least one feedback item,
\* for every number of frames.
C8_AsStated ==
    Returned =>
        LET results == video_ret.value.frame_results
            summary == video_ret.value.summary
        IN  /\ AllFeedbackEmpty(results) => summary.form_accuracy = Percent(100)
            /\ AllFeedbackPresent(results) => summary.form_accuracy = Percent(0)

\* C8: for every batch session of at least one frame, the summary's
\* form_accuracy is exactly 100 when every frame has empty feedback and
\* exactly 0 when every frame has at least one feedback item; for a
\* session of no frames it is 0.
C8_AccuracyAtTheEnds ==
    Returned =>
        LET results == video_ret.value.frame_results
            summary == video_ret.value.summary
        IN  IF results = <<>>
            THEN summary.form_accuracy = Percent(0)
            ELSE /\ AllFeedbackEmpty(results) => summary.form_accuracy = Percent(100)
                 /\ AllFeedbackPresent(results) => summary.form_accuracy = Percent(0)

\* A video of MaxVideoFrames frames, each with feedback, was summarised
\* with form_accuracy 0
C8_Witness ==
    /\ Returned
    /\ Len(video_ret.value.frame_results) = MaxVideoFrames
    /\ AllFeedbackPresent(video_ret.value.frame_results)
    /\ video_ret.value.summary.form_accuracy = Percent(0)

\* The severity of the rule that gives a message
RuleSeverity(message) ==
    IF message \in {HipSagging, HeelsDown} THEN "error" ELSE "warning"

\* The places <<frame, item>> of the results where a message occurs
Occurrences(results, message) ==
    { place \in (1..Len(results)) \X (1..3) :
        /\ place[2] <= Len(results[place[1]].analysis.feedback)
        /\ results[place[1]].analysis.feedback[place[2]].message = message }

\* The summary has the content the Session Summary is described with
SummaryAsDescribed(results, summary) ==
    /\ {"total_reps", "total_frames", "correct_form_frames", "feedback_summary"}
           \subseteq DOMAIN summary
    /\ summary.total_frames = Len(results)
    /\ summary.correct_form_frames =
           Cardinality({ i \in 1..Len(results) :
                           \A item \in Items(results[i].analysis.feedback) :
                               item.is_correct })
    /\ DOMAIN summary.feedback_summary =
           UNION { Messages(results[i].analysis.feedback) : i \in 1..Len(results) }
    /\ \A message \in DOMAIN summary.feedback_summary :
           /\ summary.feedback_summary[message].count =
                  Cardinality(Occurrences(results, message))
           /\ summary.feedback_summary[message].severity = RuleSeverity(message)

\* No call has been made on the analyzer since the last frame of the video
\* that process_video returned from
AnalyzerAsAfterLastFrame ==
    /\ ret.op = "analyze_frame"
    /\ video_ret.value.frame_results /= <<>>

\* C9 as stated: the summary returned by process_video always contains
\* total_reps equal to the analyzer's rep_count after the last frame,
\* total_frames equal to the number of frames processed,
\* correct_form_frames equal to the number of frames whose feedback list
\* has no incorrect item, and feedback_summary mapping each feedback
\* message to its occurrence count across all frames with its rule's
\* severity.
C9_AsStated ==
    Returned =>
        /\ SummaryAsDescribed(video_ret.value.frame_results, video_ret.value.summary)
        /\ AnalyzerAsAfterLastFrame => video_ret.value.summary.total_reps = rep_count

\* What C9 states holds of every video that yields at least one frame
C9_WithFrames ==
    (Returned /\ video_ret.value.frame_results /= <<>>) => C9_AsStated

---------------------------------------------------------------------------
(* Properties of the streaming pipeline.                                   *)

\* A capture thread is inside process_frame: pose detection and exercise
\* analysis are running
Processing(t) == thread_pc[t] = "process"

\* The caller's thread holds the lock only inside the with statement of
\* get_current_frame_and_analysis, whose body copies out the slot
ConsumerLocksOnlyToCopy == frame_lock = <<MainThread>> => main_pc = "get"

\* C10 as stated: the frame lock is held only while the shared slot is
\* replaced or copied: no capture thread holds it while pose detection or
\* exercise analysis runs, and the consumer holds it only while copying out
\* the current value.
C10_AsStated ==
    /\ \A t \in Threads : Processing(t) => frame_lock /= <<t>>
    /\ ConsumerLocksOnlyToCopy

\* What the code does instead: a capture thread holds the lock through the
\* whole of process_frame
C10_LockHeldWhileProcessing ==
    \A t \in Threads : Processing(t) => frame_lock = <<t>>

ReturnsFrame ==
    /\ main_pc = "get"
    /\ main_pc' = "idle"
    /\ current_frame /= None

\* C12 as stated: a consumer polling get_current_frame_and_analysis under
\* any interleaving of the capture thread, start_camera and stop_camera
\* never observes a result older than one it already observed, and the
\* rep_count of the analyses it observes never decreases within a session.
C12_AsStated ==
    [][ReturnsFrame =>
           /\ observed'.slot.frame >= observed.slot.frame
           /\ observed'.rep_count >= observed.rep_count]_vars

\* What holds of the order: the frames observed are never older
C12_FramesInOrder ==
    [][ReturnsFrame => observed'.slot.frame >= observed.slot.frame]_vars

\* ---------------------------------------------------------------------
\* Life cycle of the camera: start_camera and stop_camera
\* ---------------------------------------------------------------------

\* stop_camera was the last call of the main thread to return
Stopped == camera_ret.op = "stop_camera"

\* The captures start_camera opened that have never been released
HeldDevices == {k \in 1..Len(devices) : devices[k] = 0}

\* The capture threads that were started and have not left their loop
LiveThreads == {t \in Threads : thread_pc[t] \notin {"unstarted", "done"}}

\* C13: stop_camera is idempotent and safe in every state: before any
\* start_camera, after a failed start_camera, or repeatedly after a stop,
\* it raises no error and leaves is_running false.
C13_StopIsSafe ==
    Stopped => /\ camera_ret.raised = ""
               /\ ~is_running

\* stop_camera returned for the second time on a capture that was opened,
\* while a capture thread is still in its loop
C13_Witness ==
    /\ Stopped
    /\ camera /= None
    /\ camera.handle >= 1
    /\ devices[camera.handle] = 2
    /\ LiveThreads /= {}

\* stop_camera returned on an analyzer that never had a capture
C13_NeverStarted ==
    /\ Stopped
    /\ camera = None

\* stop_camera returned after a start_camera that could not open the device
C13_AfterFailedStart ==
    /\ Stopped
    /\ camera /= None
    /\ camera.handle = 0

\* C14 as stated: for every sequence of start_camera and stop_camera calls,
\* each capture that start_camera opened is released exactly once by a
\* stop_camera call: never zero times after a stop, never a second time on
\* a repeated stop.
C14_AsStated ==
    Stopped => \A k \in 1..Len(devices) : devices[k] = 1

\* The two ways the count differs from one
C14_Leaked == Stopped /\ HeldDevices /= {}

C14_ReleasedTwice == Stopped /\ \E k \in 1..Len(devices) : devices[k] >= 2

\* C15 as stated: after stop_camera returns no capture device remains held
\* by the analyzer, and a following start_camera on an acquirable device
\* succeeds with the running flag true and one capture thread, reading the
\* newly opened device.
C15_AsStated ==
    /\ [](Stopped => HeldDevices = {})
    /\ [][(/\ Stopped
           /\ camera_ret'.op = "start_camera"
           /\ camera' /= None
           /\ isOpened(camera', devices'))
          => /\ camera_ret'.raised = ""
             /\ is_running'
             /\ HeldDevices' = {camera'.handle}
             /\ Cardinality(LiveThreads') = 1]_vars

\* The restart that meets a capture thread of the session before
C15_TwoThreads ==
    /\ camera_ret.op = "start_camera"
    /\ is_running
    /\ Cardinality(LiveThreads) = 2
    /\ \A k \in 1..Len(devices) : k /= camera.handle => devices[k] >= 1

\* The step in which a start_camera that cannot open the device returns
StartFails ==
    /\ camera_ret'.op = "start_camera"
    /\ camera_ret'.raised = "ValueError"
    /\ (camera_ret' /= camera_ret \/ camera' /= camera)

\* C16 as stated: when the capture device cannot be opened, start_camera
\* fails with an error, starts no capture thread, and leaves the analyzer
\* in its previous not-running state: is_running false, shared slot and
\* device handle as before the call.
C16_AsStated ==
    [][StartFails => /\ thread_pc' = thread_pc
                     /\ ~is_running'
                     /\ slot_vars' = slot_vars
                     /\ camera' = camera]_vars

\* What holds of a failed start: no thread is started, the flag and the
\* slot are as before
C16_NoThreadNoSlotChange ==
    [][StartFails => /\ thread_pc' = thread_pc
                     /\ is_running' = is_running
                     /\ slot_vars' = slot_vars]_vars

\* A failed start on a running analyzer: the flag stays true and the open
\* capture is no longer referenced
C16_RunningAfterFailure ==
    /\ camera_ret.raised = "ValueError"
    /\ is_running
    /\ camera.handle = 0
    /\ HeldDevices /= {}

\* ---------------------------------------------------------------------
\* The capture loop
\* ---------------------------------------------------------------------

\* The step in which cap.read() of capture thread t returns without a frame
ReadFailed(t) ==
    /\ thread_pc[t] = "read"
    /\ thread_pc'[t] /= "read"
    /\ ~thread_local'[t].ret

\* C17: a failed frame read in the capture loop is no new data for that
\* tick: the loop keeps running (the thread is back at its loop test), the
\* analyzer session is not called or modified, and the shared slot (frame,
\* analysis, detector output) is left unchanged.
C17_FailedReadChangesNothing ==
    [][\A t \in Threads :
          ReadFailed(t) => /\ thread_pc'[t] = "while"
                           /\ analyzer_vars' = analyzer_vars
                           /\ ret' = ret
                           /\ slot_vars' = slot_vars
                           /\ frame_lock' = frame_lock
                           /\ is_running' = is_running]_vars

\* A read has failed after a result was published, the slot still holds
\* that result and the loop is about to go on
C17_Witness ==
    /\ is_running
    /\ thread_pc[1] = "while"
    /\ ~thread_local[1].ret
    /\ slot_log.frame >= 1
    /\ slot_log.analysis = slot_log.frame
    /\ current_frame /= None
    /\ rep_count >= 1

\* C18: after stop_camera is called and no start_camera follows, the
\* capture thread eventually leaves its loop, given that each device read
\* and analysis step returns, and it completes at most the iteration that
\* was in flight when the flag was cleared: with the flag cleared, the loop
\* test is never passed again.
C18_ThreadLeavesLoop ==
    /\ \A t \in Threads :
          (thread_pc[t] /= "unstarted" /\ ~is_running) ~> (thread_pc[t] = "done")
    /\ [][\A t \in Threads :
             (~is_running /\ thread_pc[t] = "while" /\ thread_pc'[t] /= "while")
                 => thread_pc'[t] = "done"]_vars

\* The thread has left its loop after the stop, and the iteration in
\* flight at the stop was completed: its frame was published after the
\* flag was cleared
C18_Witness ==
    /\ Stopped
    /\ thread_pc[1] = "done"
    /\ slot_log.analysis >= 1
    /\ current_analysis = UnknownAnalysis

\* The step in which get_current_frame_and_analysis returns
Returns ==
    /\ main_pc = "get"
    /\ main_pc' = "idle"

\* The call returns what the slot holds at that moment: the absent triple
\* before the first publication, the last published triple afterwards
C19_ReturnsLastPublished ==
    [][Returns =>
           /\ camera_ret'.raised = ""
           /\ slot_log.frame = slot_log.analysis
           /\ IF slot_log.analysis = 0
              THEN camera_ret'.value = <<None, None, None>>
              ELSE /\ camera_ret'.value =
                          <<current_frame, current_analysis, current_pose_results>>
                   /\ observed'.slot = slot_log]_vars

\* C19 as stated: get_current_frame_and_analysis never waits for a new
\* frame to be published (while a frame that was read is being analysed
\* and its result is not yet in the slot, a consumer that calls can go on
\* without a step of the capture thread); before the first publication it
\* returns the absent triple (None, None, None), and afterwards the most
\* recently published result.
C19_AsStated ==
    /\ []((main_pc = "idle" /\ \E t \in Threads : Processing(t))
              => ENABLED GetCurrentAcquire)
    /\ C19_ReturnsLastPublished

\* A consumer that calls now waits until the frame in flight is published
C19_ConsumerWaits ==
    /\ main_pc = "idle"
    /\ \E t \in Threads : Processing(t) /\ frame_lock = <<t>>
    /\ ~ENABLED GetCurrentAcquire

\* ---------------------------------------------------------------------
\* Errors on the streaming path
\* ---------------------------------------------------------------------

\* The capture loop is stopped and every capture is released
StoppedAndReleased ==
    /\ ~is_running
    /\ HeldDevices = {}

\* C20 as stated: any error raised on the streaming path, in the capture
\* thread's read or analyze step or in the consumer's polling loop, results
\* in the capture loop being stopped (is_running false) and the capture
\* device released before the error is reported: when the exception has
\* left the capture thread, and when the page has shown st.error.
C20_AsStated ==
    /\ \A t \in Threads : thread_pc[t] = "raised" => StoppedAndReleased
    /\ camera_ret.op = "st.error" => StoppedAndReleased

\* The capture thread has ended with an exception and nothing was stopped:
\* the flag is true, the device is open, and the consumer has since been
\* given the frame of the failed turn with the analysis of the turn before
C20_ThreadDiedUnnoticed ==
    /\ thread_pc[1] = "raised"
    /\ is_running
    /\ HeldDevices /= {}
    /\ camera_ret.op = "get_current_frame_and_analysis"
    /\ observed.slot.frame > observed.slot.analysis

\* The page has reported the consumer's error while the loop still runs
C20_ReportedBeforeStop ==
    /\ camera_ret.op = "st.error"
    /\ main_pc = "stop"
    /\ is_running
    /\ HeldDevices /= {}

\* The handler of the live loop does stop and release after its report
C20_HandlerStops ==
    [][(main_pc = "stop" /\ main_pc' = "idle")
          => /\ ~is_running'
             /\ camera /= None => ~isOpened(camera, devices')]_vars

----------------------------------------------------------------------------
(* Properties of process_video: frames and termination.                    *)

\* The entries of results are numbered 0, 1, 2, ... in order
NumberedInOrder(results) ==
    \A i \in 1..Len(results) : results[i].frame_number = i - 1

\* The turn of the while loop in which a frame was read
FrameRead == frame_count' = frame_count + 1

\* C21: process_video runs the frame analysis exactly once per decoded
\* frame in decode order: frame_results has one entry per successfully read
\* frame with frame_number 0, 1, 2, ... in order, and its length equals
\* video_info.frame_count, the number of processed_frames, and the number
\* of frames written to the output sink when one is given.
C21_OneResultPerFrame ==
    /\ [](Returned =>
            /\ NumberedInOrder(video_ret.value.frame_results)
            /\ Len(video_ret.value.frame_results)
                   = video_ret.value.video_info.frame_count
            /\ Len(video_ret.value.processed_frames)
                   = video_ret.value.video_info.frame_count
            /\ video_writer = "released"
                   => Len(written) = video_ret.value.video_info.frame_count
            /\ \A i \in 1..Len(video_ret.value.frame_results) :
                   /\ video_ret.value.processed_frames[i]
                          = video_ret.value.frame_results[i].pose_results
                   /\ video_writer = "released"
                          => written[i] = video_ret.value.processed_frames[i])
    /\ [][FrameRead =>
            /\ Len(analysis_results') = Len(analysis_results) + 1
            /\ SubSeq(analysis_results', 1, Len(analysis_results)) = analysis_results
            /\ Last(analysis_results').frame_number = frame_count
            /\ Last(analysis_results').analysis = ret'.value
            /\ ret'.op = "analyze_frame"
            /\ ret'.arg = Last(analysis_results').pose_results
            /\ Len(state_history') \in {Len(state_history), Len(state_history) + 1}
          ]_vars

\* process_video has returned for a video of three frames, one of them
\* without a pose, with an output sink
C21_Witness ==
    /\ Returned
    /\ video_ret.value.video_info.frame_count = 3
    /\ video_writer = "released"
    /\ Len(written) = 3
    /\ \E i \in 1..3 : video_ret.value.frame_results[i].pose_results = 0
    /\ \E i \in 1..3 : video_ret.value.frame_results[i].pose_results /= 0

\* The summary of a video in which no frame was read
EmptySummary == [total_reps |-> 0, form_accuracy |-> 0, feedback_summary |-> <<>>]

\* The turn of the while loop in which the read fails
ReadFails == video_pc = "loop" /\ video_pc' = "idle"

\* C22: for every finite video process_video terminates: the first failed
\* frame read ends the loop normally, the capture source and the output
\* writer are each released exactly once (open throughout the loop,
\* released by the step that ends it), and the summary is generated from
\* exactly the frames read before that failure.
C22_Terminates ==
    /\ (video_pc = "loop") ~> (video_pc = "idle" /\ Returned)
    /\ [](video_pc = "loop" => /\ cap = "open"
                               /\ video_writer \in {"open", "none"})
    /\ [][ReadFails =>
            /\ video_ret'.raised = ""
            /\ cap = "open" /\ cap' = "released"
            /\ video_writer' = IF video_writer = "open" THEN "released" ELSE "none"
            /\ video_ret'.value.frame_results = analysis_results
            /\ video_ret'.value.video_info.frame_count = Len(analysis_results)
            /\ IF analysis_results = <<>>
               THEN video_ret'.value.summary = EmptySummary
               ELSE /\ SummaryAsDescribed(analysis_results,
                                          video_ret'.value.summary)
                    /\ video_ret'.value.summary.total_reps
                           = Last(analysis_results).analysis.rep_count]_vars
    /\ [][cap' /= cap => (ReadFails \/ (video_pc = "idle" /\ cap' = "open"))]_vars
    /\ [][video_writer' /= video_writer
             => (ReadFails \/ (video_pc = "idle" /\ video_pc' = "loop"))]_vars

\* process_video has returned for a video of two frames with an output
\* sink: capture and writer are released
C22_Witness ==
    /\ Returned
    /\ video_pc = "idle"
    /\ video_ret.value.video_info.frame_count = 2
    /\ cap = "released"
    /\ video_writer = "released"
    /\ video_ret.value.summary.total_frames = 2

----------------------------------------------------------------------------
(* Properties of the angles.                                               *)

\* Every entry of an angle set is a degree value in [0, 180]
ValidAngles(angles) ==
    \A name \in DOMAIN angles : angles[name] \in 0..Deg(180)

\* C23 as stated: every entry of the angle set returned by analyze_frame
\* and stored in angle_history is either a valid degree value in [0, 180]
\* or absent; a degenerate joint triple (two of the three landmarks
\* coincide) never produces a NaN entry that reaches state classification
\* or the feedback rules.
C23_AsStated ==
    /\ \A i \in 1..Len(angle_history) : ValidAngles(angle_history[i])
    /\ ret.op = "analyze_frame" => ValidAngles(ret.value.angles)

\* A NaN elbow angle was stored and classified: the state is UP because
\* every comparison with NaN is false
C23_NaNClassified ==
    /\ analyzer_class = "PushUpAnalyzer"
    /\ angle_history /= <<>>
    /\ Last(angle_history).elbow = NaN
    /\ Last(state_history) = "up"
    /\ ret.op = "analyze_frame"
    /\ ret.value.angles.elbow = NaN

\* Without a degenerate triple every entry is a degree value in [0, 180]
C23_ValidUnlessDegenerate ==
    (\A i \in 1..Len(fed) : fed[i] /= 6) =>
        \A i \in 1..Len(angle_history) : ValidAngles(angle_history[i])

\* calculate_angle has returned for the points a, b, c
AngleOf(a, b, c) ==
    /\ ret.op = "calculate_angle"
    /\ ret.arg = <<a, b, c>>

\* Both rays from the vertex of the last call have non-zero length
NonZeroRays ==
    /\ ret.arg[1] /= ret.arg[2]
    /\ ret.arg[3] /= ret.arg[2]

\* C24: for all points a, b, c with both rays b->a and b->c of non-zero
\* length, calculate_angle(a, b, c) lies in [0, 180] and equals
\* calculate_angle(c, b, a).
C24_RangeAndSymmetry ==
    (ret.op = "calculate_angle" /\ NonZeroRays) =>
        /\ ret.value \in 0..Deg(180)
        /\ ret.value = calculate_angle(ret.arg[3], ret.arg[2], ret.arg[1])

\* An angle strictly between 0 and 90 at a vertex with two different rays
C24_Witness ==
    /\ AngleOf(<<2, 0>>, <<0, 0>>, <<1, 1>>)
    /\ ret.value = Deg(45)

\* The rays from b to a and to c of the last call are perpendicular
Perpendicular ==
    (ret.arg[1][1] - ret.arg[2][1]) * (ret.arg[3][1] - ret.arg[2][1])
        + (ret.arg[1][2] - ret.arg[2][2]) * (ret.arg[3][2] - ret.arg[2][2]) = 0

\* C25: calculate_angle returns 90 degrees (within 0.5) whenever the rays
\* from the vertex b to a and to c are perpendicular, as for a = (0, 0),
\* b = (1, 0), c = (1, 1).
C25_PerpendicularIs90 ==
    (ret.op = "calculate_angle" /\ NonZeroRays /\ Perpendicular) =>
        ret.value \in (Deg(90) - 1)..(Deg(90) + 1)

\* The call of test_angle_calculation
C25_Witness ==
    /\ AngleOf(<<0, 0>>, <<1, 0>>, <<1, 1>>)
    /\ ret.value = Deg(90)

----------------------------------------------------------------------------
(* Invariants of the analyzer session.                                     *)

\* C26: in every reachable state of a push-up or squat analyzer,
\* current_state is UP or DOWN and never TRANSITION, every entry of
\* state_history is UP or DOWN, and the state of a new or reset analyzer
\* is UP.
C26_UpOrDown ==
    analyzer_class /= "none" =>
        /\ current_state \in {UP, DOWN}
        /\ current_state /= TRANSITION
        /\ \A i \in 1..Len(state_history) : state_history[i] \in {UP, DOWN}
        /\ (ret.op \in {"create_analyzer", "reset"} /\ ret.raised = "")
               => current_state = UP

\* An analyzer that was reset after use has since recorded both states,
\* the last of them at an elbow angle just above the threshold
C26_Witness ==
    /\ analyzer_class = "PushUpAnalyzer"
    /\ was_reset
    /\ \E i \in 1..Len(state_history) : state_history[i] = DOWN
    /\ Len(state_history) = 3
    /\ Last(state_history) = UP
    /\ Last(angle_history).elbow \in Deg(90)..Deg(100)

\* C27: after any sequence of analyze_frame and reset calls,
\* state_history, angle_history and feedback_history have the same length,
\* equal to the number of analyze_frame calls with landmarks present since
\* the last reset, and current_state equals the last entry of
\* state_history (or UP when it is empty).
C27_HistoriesInStep ==
    analyzer_class /= "none" =>
        /\ Len(state_history) = Len(fed)
        /\ Len(angle_history) = Len(fed)
        /\ Len(feedback_history) = Len(fed)
        /\ current_state = IF state_history = <<>> THEN UP ELSE Last(state_history)

\* After a reset of a used analyzer: two frames with landmarks, then one
\* without, the last recorded state DOWN and an empty feedback list among
\* those recorded
C27_Witness ==
    /\ was_reset
    /\ Len(fed) = 2
    /\ ret.op = "analyze_frame"
    /\ ret.arg = 0
    /\ current_state = DOWN
    /\ \E i \in 1..Len(feedback_history) : feedback_history[i] = <<>>

----------------------------------------------------------------------------
(* The feedback rules.                                                     *)

\* The angle is present in the angle set and above the limit (in degrees)
PresentAndAbove(angles, name, limit) ==
    name \in DOMAIN angles /\ FloatGt(angles[name], Deg(limit))

\* The angle is present in the angle set and below the limit (in degrees)
PresentAndBelow(angles, name, limit) ==
    name \in DOMAIN angles /\ FloatLt(angles[name], Deg(limit))

\* The feedback list holds the item of a rule exactly when the rule fires
ItemIff(feedback, message, severity, fires) ==
    (FormFeedback(FALSE, message, severity) \in Items(feedback)) <=> fires

\* The feedback list holds items of the two rules only, each once
OnlyRules(feedback, warning, error) ==
    /\ Items(feedback) \subseteq {FormFeedback(FALSE, warning, "warning"),
                                  FormFeedback(FALSE, error, "error")}
    /\ Cardinality(Items(feedback)) = Len(feedback)

\* C28: the feedback list of a frame is exactly the set of fired rules,
\* each with is_correct false and a fixed severity: for push-up, the
\* elbow-flare warning iff the shoulder angle is present and above 90 and
\* the hip-sagging error iff the body_alignment angle is present and below
\* 160; for squat, the chest-up warning iff the hip angle is present and
\* below 45 and the heels error iff the ankle angle is present and below
\* 60; an absent angle never fires a rule, and several rules may fire in
\* one frame.
C28_FeedbackIsFiredRules ==
    (ret.op = "analyze_frame" /\ ret.arg /= 0) =>
        /\ Last(feedback_history) = ret.value.feedback
        /\ analyzer_class = "PushUpAnalyzer" =>
             /\ OnlyRules(ret.value.feedback, ElbowsFlare, HipSagging)
             /\ ItemIff(ret.value.feedback, ElbowsFlare, "warning",
                        PresentAndAbove(ret.value.angles, "shoulder", 90))
             /\ ItemIff(ret.value.feedback, HipSagging, "error",
                        PresentAndBelow(ret.value.angles, "body_alignment", 160))
        /\ analyzer_class = "SquatAnalyzer" =>
             /\ OnlyRules(ret.value.feedback, ChestUp, HeelsDown)
             /\ ItemIff(ret.value.feedback, ChestUp, "warning",
                        PresentAndBelow(ret.value.angles, "hip", 45))
             /\ ItemIff(ret.value.feedback, HeelsDown, "error",
                        PresentAndBelow(ret.value.angles, "ankle", 60))

\* Both push-up rules fired in one frame
C28_Witness ==
    /\ ret.op = "analyze_frame"
    /\ analyzer_class = "PushUpAnalyzer"
    /\ ret.arg /= 0
    /\ ret.value.feedback = <<FormFeedback(FALSE, ElbowsFlare, "warning"),
                              FormFeedback(FALSE, HipSagging, "error")>>

\* A frame in which the angles of the squat rules are absent gave no
\* feedback
C28_AbsentAngles ==
    /\ ret.op = "analyze_frame"
    /\ analyzer_class = "SquatAnalyzer"
    /\ ret.arg /= 0
    /\ DOMAIN ret.value.angles = {}
    /\ ret.value.feedback = <<>>

----------------------------------------------------------------------------
(* get_landmark_coordinates and the number of capture threads.             *)

\* The array and the index of the last get_landmark_coordinates call
CalledOn == get_landmarks(ret.arg[1])
CalledAt == ret.arg[2]

\* (x, y, z) of row idx of the array, rows counted from 0
Entry(landmarks, idx) ==
    <<landmarks[idx + 1][1], landmarks[idx + 1][2], landmarks[idx + 1][3]>>

\* The array is present and the index is one of its rows
ValidIndex(landmarks, idx) ==
    landmarks /= None /\ idx >= 0 /\ idx < Len(landmarks)

\* C29: get_landmark_coordinates(landmarks, idx) returns the (x, y, z) of
\* entry idx when the array is present and idx is a valid index within it,
\* and returns None in every other case: an absent array, an index at or
\* beyond the array length, or an index below zero.
C29_AsStated ==
    ret.op = "get_landmark_coordinates" =>
        /\ ret.raised = ""
        /\ IF ValidIndex(CalledOn, CalledAt)
           THEN ret.value = Entry(CalledOn, CalledAt)
           ELSE ret.value = None

\* What holds of the code: the statement for indices from 0 up; a negative
\* index down to -len gives the row counted from the end; below that the
\* call raises
C29_NegativeCountsFromEnd ==
    ret.op = "get_landmark_coordinates" =>
        /\ CalledAt >= 0 =>
             /\ ret.raised = ""
             /\ IF ValidIndex(CalledOn, CalledAt)
                THEN ret.value = Entry(CalledOn, CalledAt)
                ELSE ret.value = None
        /\ (CalledAt < 0 /\ CalledOn = None) => (ret.raised = "" /\ ret.value = None)
        /\ (CalledAt < 0 /\ CalledOn /= None) =>
             IF CalledAt >= 0 - Len(CalledOn)
             THEN ret.raised = "" /\ ret.value = Entry(CalledOn, CalledAt + Len(CalledOn))
             ELSE ret.raised = "IndexError"

\* Index -1 gave the coordinates of the last row (the right foot index)
C29_LastRowReturned ==
    /\ ret.op = "get_landmark_coordinates"
    /\ ret.arg = <<1, 0 - 1>>
    /\ ret.raised = ""
    /\ ret.value = <<3, 3, 0>>

\* C30: for every sequence of start_camera and stop_camera calls on one
\* CameraAnalyzer, at most one capture thread is executing the capture loop
\* at any time, so exactly one producer and one consumer share the slot and
\* the analyzer.
C30_AsStated == Cardinality(LiveThreads) <= 1

\* Two start_camera calls with no stop_camera between them: two capture
\* threads are in the loop while the running flag is true, and the capture
\* of the first call is still open
C30_TwoProducers ==
    /\ is_running
    /\ \A k \in 1..Len(devices) : devices[k] = 0
    /\ Len(devices) = 2
    /\ \E t \in Threads, u \in Threads :
           /\ t /= u
           /\ thread_pc[t] = "check"
           /\ thread_pc[u] = "check"

----------------------------------------------------------------------------
(* stop_camera against a capture thread in the middle of a turn.           *)

\* stop_camera has returned and no start_camera has followed it
StopReturned == started > 0 /\ ~is_running

\* The step in which capture thread t calls self.cap.read()
ReadCalled(t) == thread_pc[t] = "read" /\ thread_pc'[t] /= "read"

\* A step in which capture thread t assigns a field of the shared slot
SlotAssigned(t) ==
    /\ thread_pc[t] \in {"copy", "publish"}
    /\ thread_pc'[t] /= thread_pc[t]

\* The capture thread never calls read on a handle stop_camera has released
C31_NoReadAfterRelease ==
    [][\A t \in Threads : ReadCalled(t) => isOpened(camera, devices)]_vars

\* The capture thread assigns nothing to the slot after stop_camera returned
C31_NoPublishAfterStop ==
    [][\A t \in Threads : SlotAssigned(t) => ~StopReturned]_vars

\* C31: under every interleaving of stop_camera with the capture thread,
\* the capture thread never calls read on a device handle that stop_camera
\* has already released, and publishes no result to the shared slot after
\* stop_camera has returned.
C31_AsStated ==
    [][\A t \in Threads :
          /\ ReadCalled(t) => isOpened(camera, devices)
          /\ SlotAssigned(t) => ~StopReturned]_vars

\* stop_camera returned while a capture thread had passed the isOpened test
\* and not yet called read
C31_ReadPending ==
    /\ StopReturned
    /\ ~isOpened(camera, devices)
    /\ \E t \in Threads : thread_pc[t] = "read"

----------------------------------------------------------------------------
(* The rep counter on long histories.                                      *)

\* fed without its last frame
Front(seq) == SubSeq(seq, 1, Len(seq) - 1)

\* rep_count of a new analyzer of the class after the frames
RepsAfter(class, frames) == FreshRun(class, frames).self.rep_count

\* The most rep_count can be after n analyzed frames
MostReps(n) == IF n < 3 THEN 0 ELSE (n - 1) \div 2

\* C32: no two consecutive analyzed frames both increment rep_count, and
\* after n analyzed frames since the last reset rep_count is at most
\* (n-1)/2 rounded down (0 for n below 3).
C32_RepsAtMostHalf ==
    /\ [](analyzer_class /= "none" =>
            /\ Len(state_history) = Len(fed)
            /\ rep_count = RepsAfter(analyzer_class, fed)
            /\ rep_count <= MostReps(Len(fed)))
    /\ [][(AnalyzedStep /\ rep_count' = rep_count + 1) =>
            /\ Len(fed) >= 2
            /\ rep_count = RepsAfter(analyzer_class, Front(fed))]_vars

\* Five analyzed frames gave two reps, the most there can be: the counter
\* went up on the third and on the fifth frame
C32_Witness ==
    /\ ret.op = "analyze_frame"
    /\ Len(fed) = 5
    /\ rep_count = 2
    /\ state_history = <<UP, DOWN, UP, DOWN, UP>>

\* The joints whose angle decides the state, and the name of that angle
NeededJoints(class) ==
    IF class = "PushUpAnalyzer"
    THEN {RIGHT_SHOULDER, RIGHT_ELBOW, RIGHT_WRIST}
    ELSE {RIGHT_HIP, RIGHT_KNEE, RIGHT_ANKLE}

DiscriminatingAngle(class) == IF class = "PushUpAnalyzer" THEN "elbow" ELSE "knee"

\* The landmarks of the frame are present and a needed joint index is
\* beyond the array
JointBeyondArray(class, frame) ==
    /\ frame /= 0
    /\ \E j \in NeededJoints(class) : j >= Len(get_landmarks(frame))

\* C33: a frame whose landmarks are present but whose discriminating angle
\* is absent (a needed joint index is beyond the landmark array) is
\* classified UP, is appended to the histories, and increments rep_count
\* when the previously recorded state is DOWN and at least two states are
\* recorded.
C33_AbsentAngleIsUp ==
    [][(ret'.op = "analyze_frame" /\ Len(fed') = Len(fed) + 1
        /\ JointBeyondArray(analyzer_class, ret'.arg)) =>
         /\ DiscriminatingAngle(analyzer_class) \notin DOMAIN ret'.value.angles
         /\ ret'.value.state = UP
         /\ current_state' = UP
         /\ state_history' = Append(state_history, UP)
         /\ angle_history' = Append(angle_history, ret'.value.angles)
         /\ feedback_history' = Append(feedback_history, ret'.value.feedback)
         /\ rep_count' = IF Len(state_history) >= 2 /\ Last(state_history) = DOWN
                         THEN rep_count + 1
                         ELSE rep_count
         /\ ret'.value.rep_count = rep_count']_vars

\* The short pose after two frames of which the second was DOWN, on a
\* push-up analyzer: it was recorded as UP and counted as a rep
C33_Witness ==
    /\ ret.op = "analyze_frame"
    /\ analyzer_class = "PushUpAnalyzer"
    /\ ret.arg = ShortFrame
    /\ fed = <<1, 2, ShortFrame>>
    /\ state_history = <<UP, DOWN, UP>>
    /\ DOMAIN angle_history[3] = {}
    /\ rep_count = 1

\* The same frame as the first or second of a session, after a DOWN frame:
\* recorded as UP, not counted
C33_NotCounted ==
    /\ ret.op = "analyze_frame"
    /\ ret.arg = ShortFrame
    /\ state_history = <<DOWN, UP>>
    /\ rep_count = 0

----------------------------------------------------------------------------
(* The depth rule inside analyze_frame.                                    *)

DepthMessages == {GoDeeperElbows, GoDeeperThighs}

\* get_form_feedback of the class for the landmarks, with current_state as
\* given
get_form_feedback(class, landmarks, state) ==
    IF class = "PushUpAnalyzer"
    THEN PushUp_get_form_feedback(landmarks, state)
    ELSE Squat_get_form_feedback(landmarks, state)

\* C34: inside analyze_frame the depth rule is evaluated against the state
\* classified from the same frame (current_state is updated before feedback
\* is computed), so no result returned by analyze_frame and no
\* feedback_history entry of a push-up or squat analyzer contains the
\* depth ('Go deeper') item.
C34_NoDepthItem ==
    /\ [](analyzer_class /= "none" =>
            /\ \A i \in 1..Len(feedback_history) :
                   Messages(feedback_history[i]) \cap DepthMessages = {}
            /\ ret.op = "analyze_frame" =>
                   Messages(ret.value.feedback) \cap DepthMessages = {})
    /\ [][AnalyzedStep =>
            /\ current_state' = ret'.value.state
            /\ ret'.value.feedback =
                   get_form_feedback(analyzer_class, get_landmarks(ret'.arg),
                                     ret'.value.state)]_vars

\* A push-up frame with the elbow at 110 degrees analyzed right after a
\* DOWN frame: the state before the call is DOWN and the elbow is above
\* 100, and the feedback holds no depth item
C34_Witness ==
    /\ ret.op = "analyze_frame"
    /\ analyzer_class = "PushUpAnalyzer"
    /\ ElbowIs(ret.arg, 110)
    /\ Len(state_history) >= 2
    /\ state_history[Len(state_history) - 1] = DOWN
    /\ Last(state_history) = UP
    /\ Last(feedback_history) = ret.value.feedback
    /\ GoDeeperElbows \notin Messages(ret.value.feedback)

----------------------------------------------------------------------------
(* What a result depends on.                                               *)

\* What analyze_frame returns for the frame on a new analyzer of the class
OnNewAnalyzer(class, frame) ==
    analyze_frame(class, ExerciseAnalyzer_init, get_landmarks(frame)).result

\* The part of a result that is about the frame
OfFrame(result) ==
    [state |-> result.state, angles |-> result.angles,
     feedback |-> result.feedback]

\* C35: for a frame with landmarks present, the state, angle set and
\* feedback returned by analyze_frame are a function of that frame's
\* landmarks alone: whatever history and rep count the analyzer has, it
\* returns the state, angles and feedback that a new analyzer of the same
\* exercise returns for the same landmarks, and only rep_count depends on
\* history.
C35_ResultOfLandmarksAlone ==
    (ret.op = "analyze_frame" /\ ret.arg /= 0) =>
        /\ OfFrame(ret.value) = OfFrame(OnNewAnalyzer(analyzer_class, ret.arg))
        /\ ret.value.rep_count >= OnNewAnalyzer(analyzer_class, ret.arg).rep_count

\* An analyzer with a history returned for a frame what a new one returns,
\* but for rep_count, which is 1 where the new analyzer's is 0
C35_Witness ==
    /\ ret.op = "analyze_frame"
    /\ ret.arg /= 0
    /\ Len(state_history) = 3
    /\ state_history[2] = DOWN
    /\ ret.value.rep_count = 1
    /\ OnNewAnalyzer(analyzer_class, ret.arg).rep_count = 0
    /\ ret.value.feedback /= <<>>

----------------------------------------------------------------------------
(* One VideoProcessor, several videos.                                     *)

\* The step in which process_video has opened the file and enters the loop
VideoOpened == video_pc = "idle" /\ video_pc' = "loop"

\* The analyzer's fields after, and the analysis of the frame result, are
\* what analyze_frame gives on the landmarks of the frame for an analyzer
\* with the fields before
ContinuedFrom(class, before, after, result) ==
    /\ after = analyze_frame(class, before, result.landmarks).self
    /\ result.analysis = analyze_frame(class, before, result.landmarks).result

\* process_video clears its two lists at its start and leaves the analyzer
\* as it is; each frame's result carries the analyzer's running rep_count,
\* and the state history goes on from where it was
ContinuesAnalyzer ==
    /\ [][VideoOpened =>
            /\ analysis_results' = <<>>
            /\ processed_frames' = <<>>
            /\ UNCHANGED <<rep_count, current_state, state_history,
                           angle_history, feedback_history>>]_vars
    /\ [][FrameRead =>
            /\ Last(analysis_results').analysis.rep_count = rep_count'
            /\ rep_count' >= rep_count
            /\ Len(state_history') >= Len(state_history)
            /\ SubSeq(state_history', 1, Len(state_history)) = state_history
            /\ ContinuedFrom(analyzer_class, Session, Session',
                             Last(analysis_results'))]_vars

\* C36 as stated: process_video clears analysis_results and
\* processed_frames at its start but does not reset the analyzer, so on a
\* second process_video call on the same VideoProcessor without an
\* intervening set_exercise_analyzer the rep counts in frame_results and
\* summary.total_reps continue from the first video's final rep_count and
\* state history.
C36_AsStated ==
    /\ ContinuesAnalyzer
    /\ [][ReadFails => video_ret'.value.summary.total_reps = rep_count]_vars

\* C36 amended: the same, where summary.total_reps continues from the first
\* video's final rep_count when the second video yields at least one frame,
\* and is 0 when it yields none.
C36_ContinuesWithFrames ==
    /\ ContinuesAnalyzer
    /\ [][ReadFails =>
            video_ret'.value.summary.total_reps =
                IF analysis_results = <<>> THEN 0 ELSE rep_count]_vars

\* A video of one UP frame was summarised with one rep: the two frames
\* before it, UP and DOWN, were of an earlier video
C36_Witness ==
    /\ Returned
    /\ Len(video_ret.value.frame_results) = 1
    /\ video_ret.value.frame_results[1].frame_number = 0
    /\ video_ret.value.frame_results[1].analysis.rep_count = 1
    /\ video_ret.value.summary.total_reps = 1
    /\ state_history = <<UP, DOWN, UP>>

\* A video of no frames after one that ended with a rep counted
C36_EmptySecondVideo ==
    /\ Returned
    /\ video_ret.value.frame_results = <<>>
    /\ video_ret.value.summary.total_reps = 0
    /\ rep_count = 1

----------------------------------------------------------------------------
(* Frames without a pose in the batch summary.                             *)

\* No pose was detected in any frame of the results
NoPoseEver(results) ==
    \A i \in 1..Len(results) : results[i].landmarks = None

\* The frames of the results with at least one feedback item
WithFeedback(results) ==
    {i \in 1..Len(results) : results[i].analysis.feedback /= <<>>}

\* The summary counts every frame either as correct form or as one with
\* feedback
CountsAddUp(results, summary) ==
    /\ {"total_frames", "correct_form_frames"} \subseteq DOMAIN summary
    /\ summary.correct_form_frames + Cardinality(WithFeedback(results))
           = summary.total_frames
    /\ summary.correct_form_frames >=
           Cardinality({i \in 1..Len(results) : results[i].landmarks = None})

\* A frame without a pose has empty feedback and leaves rep_count as it is
NoPoseFrameIsEmpty ==
    [][(FrameRead /\ Last(analysis_results').landmarks = None) =>
         /\ Last(analysis_results').analysis.feedback = <<>>
         /\ UNCHANGED rep_count]_vars

\* C37 as stated: in the batch summary a frame in which no pose was
\* detected (empty feedback) is counted as a correct-form frame, so
\* correct_form_frames plus the number of frames with at least one feedback
\* item equals total_frames, and a video in which no pose is ever detected
\* has form_accuracy 100 and total_reps unchanged.
C37_AsStated ==
    /\ NoPoseFrameIsEmpty
    /\ [][ReadFails =>
            /\ CountsAddUp(analysis_results, video_ret'.value.summary)
            /\ NoPoseEver(analysis_results) =>
                 /\ video_ret'.value.summary.form_accuracy = Percent(100)
                 /\ video_ret'.value.summary.total_reps = rep_count]_vars

\* C37 amended: the same for every video of at least one frame; the summary
\* of a video of no frames has form_accuracy 0 and total_reps 0.
C37_NoPoseIsCorrectForm ==
    /\ NoPoseFrameIsEmpty
    /\ [][ReadFails =>
            IF analysis_results = <<>>
            THEN /\ video_ret'.value.summary.form_accuracy = Percent(0)
                 /\ video_ret'.value.summary.total_reps = 0
            ELSE /\ CountsAddUp(analysis_results, video_ret'.value.summary)
                 /\ NoPoseEver(analysis_results) =>
                      /\ video_ret'.value.summary.form_accuracy = Percent(100)
                      /\ video_ret'.value.summary.total_reps = rep_count]_vars

\* A video of two frames without a pose, after a video that ended with one
\* rep: form_accuracy 100, both frames counted correct, total_reps still 1
C37_Witness ==
    /\ Returned
    /\ Len(video_ret.value.frame_results) = 2
    /\ NoPoseEver(video_ret.value.frame_results)
    /\ video_ret.value.summary.form_accuracy = Percent(100)
    /\ video_ret.value.summary.correct_form_frames = 2
    /\ video_ret.value.summary.total_reps = 1
    /\ rep_count = 1

\* A video of three frames, one without a pose and two with feedback
C37_MixedVideo ==
    /\ Returned
    /\ Len(video_ret.value.frame_results) = 3
    /\ Cardinality(WithFeedback(video_ret.value.frame_results)) = 2
    /\ \E i \in 1..3 : video_ret.value.frame_results[i].landmarks = None
    /\ video_ret.value.summary.correct_form_frames = 1

----------------------------------------------------------------------------
(* process_video when it fails.                                            *)

\* process_video is called with no analyzer set or on a file that cannot
\* be opened
OpenFails(opened, output_path) ==
    /\ ProcessVideoOpen(opened, output_path)
    /\ (processor_analyzer = None \/ ~opened)

\* The turn of the while loop that an exception leaves
TurnRaises == video_pc = "loop" /\ video_ret'.raised = "Exception"

\* C38: process_video fails with an error before reading any frame when no
\* analyzer is set or when the video cannot be opened, and in both cases
\* leaves analysis_results, processed_frames and the analyzer session
\* unchanged; when a frame's processing raises after the video is open, the
\* capture source and the output writer are still released.
C38_FailsCleanly ==
    /\ [][\A opened \in BOOLEAN, output_path \in BOOLEAN :
            OpenFails(opened, output_path) =>
                /\ video_ret'.raised = "ValueError"
                /\ video_pc' = "idle"
                /\ UNCHANGED <<analysis_results, processed_frames, frame_count,
                               rep_count, current_state, state_history,
                               angle_history, feedback_history>>]_vars
    /\ [](video_pc = "loop" => processor_analyzer /= None)
    /\ [][FrameRead => video_pc = "loop"]_vars
    /\ [][TurnRaises =>
            /\ cap = "open" /\ cap' = "released"
            /\ video_writer' = IF video_writer = "open" THEN "released" ELSE "none"
            /\ video_pc' = "idle"]_vars

\* A frame's processing raised in a video with an output file, after one
\* frame had been processed: capture and writer are released
C38_Witness ==
    /\ video_ret.raised = "Exception"
    /\ video_pc = "idle"
    /\ cap = "released"
    /\ video_writer = "released"
    /\ Len(analysis_results) >= 1
    /\ Len(written) >= 1

\* process_video failed on a file that cannot be opened, after a video of
\* two frames: the results and the analyzer are those of that video
C38_OpenFailedAfterVideo ==
    /\ video_ret.raised = "ValueError"
    /\ processor_analyzer /= None
    /\ Len(analysis_results) = 2
    /\ Len(processed_frames) = 2
    /\ Len(state_history) = 2

\* process_video failed with no analyzer set
C38_NoAnalyzer ==
    /\ video_ret.raised = "ValueError"
    /\ processor_analyzer = None

=============================================================================
